---- MODULE Spec2Model ----
(***************************************************************************)
(* A model of brioche-runtime-utils: the pack trailer codec, the resource   *)
(* store (blobs, directories, aliases), the resource-dir lookup and the     *)
(* autopack classifier.  Each subsystem has its own variables and its own   *)
(* specification; the variables of the other subsystems stay at their idle  *)
(* values.                                                                  *)
(***************************************************************************)
EXTENDS Integers, Sequences, FiniteSets, TLC

VARIABLES
  \* pack codec (brioche_pack, autopack_repack, without_pack)
  pkPhase, pkHost, pkPack, pkFile, pkExtracted, pkUnpacked, pkWithout,
  \* resource store: the tree under the resource dir, and the callers of
  \* add_blob, add_named_blob, add_resource_directory and
  \* add_named_resource_directory
  fs, proc,
  \* resource-dir lookup (find_resource_dirs, find_in_resource_dirs,
  \* find_output_resource_dir)
  fdPhase, fdIn, fdWalk, fdResult, fdPresent, fdHit, fdOutput,
  \* autopack classifier (autopack_kind)
  akPhase, akFile, akKind,
  \* library closure resolver (collect_all_library_dirs)
  lbPhase, lbIn, lbRun,
  \* autopack engine (autopack, autopack_path, try_autopack_dependency)
  apPhase, apIn, apRun,
  \* script interpreter lookup (autopack_context, find_script_interpreter)
  scPhase, scIn, scRun,
  \* metadata runtime env staging (brioche-packed-plain-exec run, EnvVarChanges)
  exPhase, exIn, exRun,
  \* runtime stubs (brioche-packed-plain-exec main/run, brioche-packed-userland-exec entrypoint/run)
  stPhase, stIn, stOut,
  \* script config re-basing (ScriptConfig::env_for_output_path, dependencies_for_output_path)
  rbPhase, rbIn, rbOut,
  \* repacking of one packed input (try_autopack_path, autopack_repack)
  rpPhase, rpIn, rpRun,
  \* linker wrapper (brioche-ld run)
  ldPhase, ldIn, ldRun

packVars == <<pkPhase, pkHost, pkPack, pkFile, pkExtracted, pkUnpacked, pkWithout>>
storeVars == <<fs, proc>>
findVars == <<fdPhase, fdIn, fdWalk, fdResult, fdPresent, fdHit, fdOutput>>
kindVars == <<akPhase, akFile, akKind>>
libVars == <<lbPhase, lbIn, lbRun>>
autoVars == <<apPhase, apIn, apRun>>
scriptVars == <<scPhase, scIn, scRun>>
execVars == <<exPhase, exIn, exRun>>
stubVars == <<stPhase, stIn, stOut>>
rebaseVars == <<rbPhase, rbIn, rbOut>>
repackVars == <<rpPhase, rpIn, rpRun>>
ldVars == <<ldPhase, ldIn, ldRun>>

vars == <<packVars, storeVars, findVars, kindVars, libVars, autoVars, scriptVars, execVars, stubVars, rebaseVars, repackVars, ldVars>>

\* The values a subsystem's variables keep while another subsystem runs.
FindIdle ==
  /\ fdPhase = "idle"
  /\ fdIn = <<>>
  /\ fdWalk = <<>>
  /\ fdResult = <<>>
  /\ fdPresent = {}
  /\ fdHit = <<>>
  /\ fdOutput = <<>>

KindIdle ==
  /\ akPhase = "idle"
  /\ akFile = <<>>
  /\ akKind = "idle"

LibIdle ==
  /\ lbPhase = "idle"
  /\ lbIn = <<>>
  /\ lbRun = <<>>

AutoIdle ==
  /\ apPhase = "idle"
  /\ apIn = <<>>
  /\ apRun = <<>>

ScriptIdle ==
  /\ scPhase = "idle"
  /\ scIn = <<>>
  /\ scRun = <<>>

ExecIdle ==
  /\ exPhase = "idle"
  /\ exIn = <<>>
  /\ exRun = <<>>

StubIdle ==
  /\ stPhase = "idle"
  /\ stIn = <<>>
  /\ stOut = <<>>

RebaseIdle ==
  /\ rbPhase = "idle"
  /\ rbIn = <<>>
  /\ rbOut = <<>>

RepackIdle ==
  /\ rpPhase = "idle"
  /\ rpIn = <<>>
  /\ rpRun = <<>>

LdIdle ==
  /\ ldPhase = "idle"
  /\ ldIn = <<>>
  /\ ldRun = <<>>

(***************************************************************************)
(* Generic helpers                                                          *)
(***************************************************************************)
SeqsUpTo(S, n) == UNION {[1..k -> S] : k \in 0..n}

RECURSIVE Flatten(_)
Flatten(ss) == IF ss = <<>> THEN <<>> ELSE Head(ss) \o Flatten(Tail(ss))

IsSuffix(suf, s) ==
  /\ Len(suf) <= Len(s)
  /\ SubSeq(s, Len(s) - Len(suf) + 1, Len(s)) = suf

DropLast(s, n) == SubSeq(s, 1, Len(s) - n)

TakeLast(s, n) == SubSeq(s, Len(s) - n + 1, Len(s))

(***************************************************************************)
(* Pack codec.  The brioche_pack crate is not among the sources; the codec  *)
(* is modelled from the trailer layout                                      *)
(*   host || marker || len_le32 || payload || len_le32 || marker            *)
(* with a tagged-union, length-prefixed payload encoding.                   *)
(***************************************************************************)

\* Bounds of the pack inputs.
MaxHostLen == 2
MaxFieldLen == 1
MaxListLen == 1

\* "brioche_pack_v0" padded with spaces to 32 bytes.
MARKER ==
  <<98, 114, 105, 111, 99, 104, 101, 95, 112, 97, 99, 107, 95, 118, 48>>
    \o [i \in 1..17 |-> 32]

\* LengthInt::to_le_bytes: an unsigned 32-bit length, little-endian.
LengthBytes(n) ==
  <<n % 256, (n \div 256) % 256, (n \div 65536) % 256, (n \div 16777216) % 256>>

\* LengthInt::from_le_bytes
LengthFromBytes(b) == b[1] + 256 * b[2] + 65536 * b[3] + 16777216 * b[4]

\* A byte string: its length (one varint byte for the lengths modelled), then
\* its bytes.
EncBytes(b) == <<Len(b)>> \o b

\* A list of byte strings: its count, then each element.
EncList(l) == <<Len(l)>> \o Flatten([i \in 1..Len(l) |-> EncBytes(l[i])])

\* The payload of a pack: the variant's index, then its fields in order.
EncodePack(p) ==
  CASE p.tag = "LdLinux" ->
         <<0>> \o EncBytes(p.program) \o EncBytes(p.interpreter)
               \o EncList(p.library_dirs) \o EncList(p.runtime_library_dirs)
    [] p.tag = "Static" -> <<1>> \o EncList(p.library_dirs)
    [] p.tag = "Metadata" ->
         <<2>> \o EncList(p.resource_paths) \o EncBytes(p.format)
               \o EncBytes(p.metadata)

\* Decoders return [ok, val, next]: next is the position after the value.
DecFail == [ok |-> FALSE, val |-> <<>>, next |-> 0]

DecBytes(s, pos) ==
  IF pos < 1 \/ pos > Len(s) THEN DecFail
  ELSE IF pos + s[pos] > Len(s) THEN DecFail
  ELSE [ok |-> TRUE, val |-> SubSeq(s, pos + 1, pos + s[pos]),
        next |-> pos + s[pos] + 1]

RECURSIVE DecItems(_, _, _, _)
DecItems(s, pos, n, acc) ==
  IF n = 0 THEN [ok |-> TRUE, val |-> acc, next |-> pos]
  ELSE LET b == DecBytes(s, pos)
       IN  IF ~b.ok THEN DecFail
           ELSE DecItems(s, b.next, n - 1, Append(acc, b.val))

DecList(s, pos) ==
  IF pos < 1 \/ pos > Len(s) THEN DecFail
  ELSE DecItems(s, pos + 1, s[pos], <<>>)

DecodePack(s) ==
  IF s = <<>> THEN DecFail
  ELSE CASE s[1] = 0 ->
              LET a == DecBytes(s, 2)
                  b == DecBytes(s, a.next)
                  c == DecList(s, b.next)
                  d == DecList(s, c.next)
              IN  IF a.ok /\ b.ok /\ c.ok /\ d.ok
                  THEN [ok |-> TRUE, next |-> d.next,
                        val |-> [tag |-> "LdLinux", program |-> a.val,
                                 interpreter |-> b.val, library_dirs |-> c.val,
                                 runtime_library_dirs |-> d.val]]
                  ELSE DecFail
         [] s[1] = 1 ->
              LET a == DecList(s, 2)
              IN  IF a.ok
                  THEN [ok |-> TRUE, next |-> a.next,
                        val |-> [tag |-> "Static", library_dirs |-> a.val]]
                  ELSE DecFail
         [] s[1] = 2 ->
              LET a == DecList(s, 2)
                  b == DecBytes(s, a.next)
                  c == DecBytes(s, b.next)
              IN  IF a.ok /\ b.ok /\ c.ok
                  THEN [ok |-> TRUE, next |-> c.next,
                        val |-> [tag |-> "Metadata", resource_paths |-> a.val,
                                 format |-> b.val, metadata |-> c.val]]
                  ELSE DecFail
         [] OTHER -> DecFail

\* inject_pack: what is appended to the writer.
InjectPayload(p) ==
  LET payload == EncodePack(p)
  IN  MARKER \o LengthBytes(Len(payload)) \o payload
             \o LengthBytes(Len(payload)) \o MARKER

InjectPack(contents, p) == contents \o InjectPayload(p)

\* extract_pack: read everything, strip the trailing marker and length, take
\* the payload of that length, then check the leading length and marker.
ExtractPack(contents) ==
  IF ~IsSuffix(MARKER, contents) THEN [err |-> "MarkerNotFound"]
  ELSE
    LET r1 == DropLast(contents, Len(MARKER))
    IN  IF Len(r1) < 4 THEN [err |-> "MalformedMarker"]
        ELSE
          LET lenBytes == TakeLast(r1, 4)
              length == LengthFromBytes(lenBytes)
              r2 == DropLast(r1, 4)
          IN  IF length > Len(r2) THEN [err |-> "MalformedMarker"]
              ELSE
                LET payload == TakeLast(r2, length)
                    r3 == DropLast(r2, length)
                IN  IF ~IsSuffix(lenBytes, r3) THEN [err |-> "MalformedMarker"]
                    ELSE IF ~IsSuffix(MARKER, DropLast(r3, 4))
                    THEN [err |-> "MalformedMarker"]
                    ELSE
                      LET dec == DecodePack(payload)
                      IN  IF ~dec.ok THEN [err |-> "InvalidPack"]
                          ELSE [err |-> "none", pack |-> dec.val,
                                unpacked_len |->
                                  Len(r3) - 4 - Len(MARKER)]

ExtractOk(contents) == ExtractPack(contents).err = "none"

\* autopack_repack, PackSource::This: &contents[..extracted.unpacked_len]
UnpackedContentsShort(contents, unpacked_len) ==
  SubSeq(contents, 1, unpacked_len - 1)
UnpackedContents(contents, unpacked_len) == SubSeq(contents, 1, unpacked_len)

\* A reader over `contents` at position `pos` (bytes already consumed).
ReadToEnd(contents, pos) == SubSeq(contents, pos + 1, Len(contents))

\* Read::take(n) then reading to the end: at most n bytes from the current
\* position.
TakeFrom(contents, pos, n) ==
  SubSeq(contents, pos + 1,
         IF pos + n < Len(contents) THEN pos + n ELSE Len(contents))

\* without_pack: seek to the end for the length, rewind, extract_pack (which
\* reads the reader to its end), then take() on the reader where it stands.
WithoutPack(contents) ==
  LET content_length == Len(contents)
      posAfterExtract == Len(contents)
      extracted == ExtractPack(ReadToEnd(contents, 0))
  IN  IF extracted.err = "none"
      THEN TakeFrom(contents, posAfterExtract, extracted.unpacked_len)
      ELSE TakeFrom(contents, posAfterExtract, content_length)

\* The other subsystems at rest.
StoreIdle == fs = <<>> /\ proc = <<>>

PackIdle ==
  /\ pkPhase = "idle"
  /\ pkHost = <<>>
  /\ pkPack = <<>>
  /\ pkFile = <<>>
  /\ pkExtracted = <<>>
  /\ pkUnpacked = <<>>
  /\ pkWithout = <<>>

\* The inputs: packs with short fields, and hosts that are short byte strings,
\* optionally followed by the trailer of another pack, or by a bare marker.
FieldByte == {47}
HostByte == {32, 48, 127}
Fields == SeqsUpTo(FieldByte, MaxFieldLen)
FieldLists == SeqsUpTo(Fields, MaxListLen)

Packs ==
  [tag : {"LdLinux"}, program : Fields, interpreter : Fields,
   library_dirs : FieldLists, runtime_library_dirs : FieldLists]
  \cup [tag : {"Static"}, library_dirs : FieldLists]
  \cup [tag : {"Metadata"}, resource_paths : FieldLists, format : Fields,
        metadata : Fields]

HostTails ==
  {<<>>, MARKER, LengthBytes(0) \o MARKER,
   InjectPayload([tag |-> "Static", library_dirs |-> <<>>]),
   InjectPayload([tag |-> "Metadata", resource_paths |-> <<>>,
                  format |-> <<47>>, metadata |-> MARKER])}

Hosts == {h \o t : h \in SeqsUpTo(HostByte, MaxHostLen), t \in HostTails}

PackStart ==
  /\ pkPhase = "host"
  /\ pkHost \in Hosts
  /\ pkPack \in Packs
  /\ pkFile = pkHost
  /\ pkExtracted = [err |-> "unread"]
  /\ pkUnpacked = <<>>
  /\ pkWithout = <<>>

\* The pack steps leave the other subsystems alone.
PackFrame == UNCHANGED <<storeVars, findVars, kindVars, libVars, autoVars, scriptVars, execVars, stubVars, rebaseVars, repackVars, ldVars>>

\* brioche-packer pack: copy the host, then inject_pack.
PkInject ==
  /\ pkPhase = "host"
  /\ pkFile' = InjectPack(pkFile, pkPack)
  /\ pkPhase' = "packed"
  /\ UNCHANGED <<pkHost, pkPack, pkExtracted, pkUnpacked, pkWithout>>
  /\ PackFrame

\* autopack_repack: read the file and extract_pack.
PkExtract ==
  /\ pkPhase = "packed"
  /\ pkExtracted' = ExtractPack(pkFile)
  /\ pkPhase' = "extracted"
  /\ UNCHANGED <<pkHost, pkPack, pkFile, pkUnpacked, pkWithout>>
  /\ PackFrame

\* autopack_repack, PackSource::This: write the unpacked prefix; and
\* without_pack on the same file.
PkUnpack ==
  /\ pkPhase = "extracted"
  /\ pkExtracted.err = "none"
  /\ pkUnpacked' = UnpackedContents(pkFile, pkExtracted.unpacked_len)
  /\ pkWithout' = WithoutPack(pkFile)
  /\ pkPhase' = "unpacked"
  /\ UNCHANGED <<pkHost, pkPack, pkFile, pkExtracted>>
  /\ PackFrame

PackNext == PkInject \/ PkExtract \/ PkUnpack

PackInit == PackStart /\ StoreIdle /\ FindIdle /\ KindIdle /\ LibIdle /\ AutoIdle /\ ScriptIdle /\ ExecIdle /\ StubIdle /\ RebaseIdle /\ RepackIdle /\ LdIdle

SpecPack == PackInit /\ [][PackNext]_vars

NumProcs == 2
MaxCalls == 2
MaxBlobLen == 2

Procs == 1..NumProcs

BLOBS == <<"blobs">>
DIRECTORIES == <<"directories">>
ALIASES == <<"aliases">>
DOTDOT == <<"..">>

FileNode(data, exec) ==
  [type |-> "file", data |-> data, exec |-> exec, target |-> <<>>]
DirNode == [type |-> "dir", data |-> <<>>, exec |-> FALSE, target |-> <<>>]
SymlinkNode(target) ==
  [type |-> "symlink", data |-> <<>>, exec |-> FALSE, target |-> target]

IsPrefix(pre, path) ==
  Len(pre) <= Len(path) /\ SubSeq(path, 1, Len(pre)) = pre

Exists(f, path) == path \in DOMAIN f

IsDir(f, path) == path \in DOMAIN f /\ f[path].type = "dir"

\* The entries directly inside a directory.
Children(f, dir) ==
  {q \in DOMAIN f : Len(q) = Len(dir) + 1 /\ IsPrefix(dir, q)}

\* A directory and everything below it.
Under(f, dir) == {q \in DOMAIN f : IsPrefix(dir, q)}

Prefixes(path) == {SubSeq(path, 1, k) : k \in 1..Len(path)}

\* std::fs::create_dir_all: the directory and its missing ancestors.
CreateDirAll(f, path) ==
  [q \in DOMAIN f \cup Prefixes(path) |->
     IF q \in DOMAIN f THEN f[q] ELSE DirNode]

\* std::fs::create_dir
CreateDir(f, path) == [q \in DOMAIN f \cup {path} |-> IF q = path THEN DirNode ELSE f[q]]

\* OpenOptions::create_new(true).write(true), mode 0o777 when executable.
CreateNewFile(f, path, exec) ==
  [q \in DOMAIN f \cup {path} |-> IF q = path THEN FileNode(<<>>, exec) ELSE f[q]]

\* File::write_all on a file opened at `path`.
WriteAll(f, path, buf) ==
  [f EXCEPT ![path] = FileNode(f[path].data \o buf, f[path].exec)]

\* std::fs::rename of a file: the target is replaced atomically.
RenameFileKeep(f, from, to) ==
  [q \in DOMAIN f \cup {to} |-> IF q = to THEN f[from] ELSE f[q]]
RenameFile(f, from, to) ==
  [q \in (DOMAIN f \ {from}) \cup {to} |-> IF q = to THEN f[from] ELSE f[q]]

\* std::os::unix::fs::symlink
SymlinkNone(f, path, target) == f
Symlink(f, path, target) ==
  [q \in DOMAIN f \cup {path} |-> IF q = path THEN SymlinkNode(target) ELSE f[q]]

\* std::fs::remove_dir_all
RemoveDirAll(f, dir) == [q \in DOMAIN f \ Under(f, dir) |-> f[q]]

\* rename(2) of a directory fails when the target is a non-empty directory.
RenameDirBlocked(f, to) == Exists(f, to) /\ Children(f, to) # {}

\* std::fs::rename of a directory onto a missing or empty target: the whole
\* subtree moves.
RenameDir(f, from, to) ==
  LET moved == {to \o SubSeq(q, Len(from) + 1, Len(q)) : q \in Under(f, from)}
  IN  [q \in (DOMAIN f \ Under(f, from)) \cup moved |->
         IF q \in moved
         THEN f[from \o SubSeq(q, Len(to) + 1, Len(q))]
         ELSE f[q]]

\* blake3::Hasher: the hasher holds the bytes it was fed; the digest stands
\* for them (no two byte strings share a digest).
HasherNew == <<>>
HasherUpdateNone(h, buf) == h
HasherUpdate(h, buf) == h \o buf
Blake3(bytes) == bytes
HasherFinalize(h) == Blake3(h)

\* ulid::Ulid::new(): a value no other call returns; here the caller, the
\* number of its call, and the number of the draw within the call.
NewUlid(p, calls, k) == <<p, calls, k>>

\* blob_dir.join(blob_temp_id.to_string())
BlobTempPath(ulid) == <<BLOBS, <<"ulid", ulid>>>>

\* format!("{hash}{blob_suffix}")
BlobName(hash, executable) ==
  <<"blake3", hash, IF executable THEN ".x" ELSE "">>

BlobPath(hash, executable) == <<BLOBS, BlobName(hash, executable)>>

NoResult == [status |-> "none", path |-> <<>>, err |-> ""]
OkResult(path) == [status |-> "ok", path |-> path, err |-> ""]
ErrResult(kind) == [status |-> "err", path |-> <<>>, err |-> kind]

\* A caller: where it stands (pc), the arguments of its current or last call,
\* its locals, and what the call returned.  `again` says that the call repeats
\* the caller's previous successful call; `prevPath` and `before` are then
\* what that call returned and the store as this call found it.
IdleProc ==
  [pc |-> "idle", op |-> "none", contents |-> <<>>, executable |-> FALSE,
   name |-> <<"">>, source |-> <<>>, target |-> <<>>, calls |-> 0,
   ulid |-> <<0, 0, 0>>, pos |-> 0, hasher |-> HasherNew,
   result |-> NoResult, again |-> FALSE, prevPath |-> <<>>, before |-> <<>>]

BlobByte == {1}
BlobContents == SeqsUpTo(BlobByte, MaxBlobLen)

\* The calls begun so far, by all callers (bounded by MaxCalls).
RECURSIVE SumCalls(_)
SumCalls(P) ==
  IF P = {} THEN 0
  ELSE LET p == CHOOSE q \in P : TRUE
       IN  proc[p].calls + SumCalls(P \ {p})

CallsBegun == SumCalls(Procs)

StoreStart ==
  /\ fs = << >>
  /\ proc = [p \in Procs |-> IdleProc]

\* The store steps leave the other subsystems alone.
StoreFrame == UNCHANGED <<packVars, findVars, kindVars, libVars, autoVars, scriptVars, execVars, stubVars, rebaseVars, repackVars, ldVars>>

\* Whether a call of `op` with these arguments repeats p's last call, which
\* succeeded.
Repeats(p, op, c, x) ==
  /\ proc[p].op = op
  /\ proc[p].result.status = "ok"
  /\ proc[p].contents = c
  /\ proc[p].executable = x

\* add_blob starts (also within add_named_blob): the blobs directory is
\* created and the temporary file is opened (create_new) under a fresh ulid
\* name (lines 113-130).
AddBlobStart(p, op, c, x, name) ==
  LET ulid == NewUlid(p, proc[p].calls + 1, 1)
      again == Repeats(p, op, c, x)
      begun == [proc[p] EXCEPT
                  !.op = op, !.contents = c, !.executable = x, !.name = name,
                  !.source = <<>>, !.target = <<>>,
                  !.calls = @ + 1, !.ulid = ulid, !.pos = 0,
                  !.hasher = HasherNew, !.again = again,
                  !.prevPath = IF again THEN proc[p].result.path ELSE <<>>,
                  !.before = IF again THEN fs ELSE <<>>,
                  !.result = NoResult]
      made == CreateDirAll(fs, <<BLOBS>>)
  IN  IF Exists(made, BlobTempPath(ulid))
      THEN /\ proc' = [proc EXCEPT ![p] =
                         [begun EXCEPT !.result = ErrResult("AlreadyExists")]]
           /\ fs' = made
      ELSE /\ proc' = [proc EXCEPT ![p] = [begun EXCEPT !.pc = "blob_copy"]]
           /\ fs' = CreateNewFile(made, BlobTempPath(ulid), x)

\* add_blob is called.
BlobBegin(p) ==
  /\ proc[p].pc = "idle"
  /\ CallsBegun < MaxCalls
  /\ \E c \in BlobContents, x \in BOOLEAN :
       AddBlobStart(p, "add_blob", c, x, <<"">>)
  /\ StoreFrame

\* One round of the copy loop with a non-empty buffer: hash it and write it
\* to the temporary file (lines 135-146).
BlobCopy(p) ==
  /\ proc[p].pc = "blob_copy"
  /\ proc[p].pos < Len(proc[p].contents)
  /\ LET buf == <<proc[p].contents[proc[p].pos + 1]>>
     IN  /\ proc' = [proc EXCEPT ![p] =
                       [@ EXCEPT !.hasher = HasherUpdate(@, buf),
                                 !.pos = @ + 1]]
         /\ fs' = WriteAll(fs, BlobTempPath(proc[p].ulid), buf)
  /\ StoreFrame

\* The reader (or the write) fails part-way: add_blob returns the error and
\* the temporary file stays (lines 136, 142).
BlobReadError(p) ==
  /\ proc[p].pc = "blob_copy"
  /\ proc' = [proc EXCEPT ![p] =
                [@ EXCEPT !.pc = "idle", !.result = ErrResult("IoError")]]
  /\ fs' = fs
  /\ StoreFrame

\* The reader is at its end: the temporary file is renamed to the name made
\* of the digest, and the subpath is returned (lines 137-165); add_named_blob
\* goes on to add the alias (lines 180-184).
BlobRename(p) ==
  /\ proc[p].pc = "blob_copy"
  /\ proc[p].pos = Len(proc[p].contents)
  /\ LET hash == HasherFinalize(proc[p].hasher)
         blob_path == BlobPath(hash, proc[p].executable)
     IN  /\ fs' = RenameFile(fs, BlobTempPath(proc[p].ulid), blob_path)
         /\ proc' = [proc EXCEPT ![p] =
                       IF proc[p].op = "add_blob"
                       THEN [@ EXCEPT !.pc = "idle",
                                      !.result = OkResult(blob_path)]
                       ELSE [@ EXCEPT !.pc = "alias_mkdir",
                                      !.target = blob_path]]
  /\ StoreFrame

StoreInit == StoreStart /\ PackIdle /\ FindIdle /\ KindIdle /\ LibIdle /\ AutoIdle /\ ScriptIdle /\ ExecIdle /\ StubIdle /\ RebaseIdle /\ RepackIdle /\ LdIdle

\* Concurrent callers of add_blob on one resource dir.
BlobNext ==
  \E p \in Procs :
    \/ BlobBegin(p)
    \/ BlobCopy(p)
    \/ BlobReadError(p)
    \/ BlobRename(p)

SpecBlob == StoreInit /\ [][BlobNext]_vars

IsTempName(n) == n[1] = "ulid"
IsFinalName(n) == n[1] = "blake3"

\* Caller p has made two successful add_blob calls in a row with the same
\* content and flag, and no other caller has touched the store.
SameBlobAgain(p) ==
  /\ \A q \in Procs \ {p} : proc[q].calls = 0
  /\ proc[p].pc = "idle"
  /\ proc[p].op = "add_blob"
  /\ proc[p].result.status = "ok"
  /\ proc[p].again

\* C2: add_blob is idempotent: a second successful call with the same content
\* and executable flag returns the same subpath, blobs/<hash> or
\* blobs/<hash>.x, and leaves the store as the first call left it (the final
\* blob, and no temp file of either call).
C2_Idempotent ==
  \A p \in Procs :
    SameBlobAgain(p) =>
      /\ proc[p].result.path = proc[p].prevPath
      /\ proc[p].result.path =
           <<BLOBS, <<"blake3", Blake3(proc[p].contents),
                      IF proc[p].executable THEN ".x" ELSE "">>>>
      /\ fs = proc[p].before
      /\ Exists(fs, proc[p].result.path)
      /\ ~Exists(fs, BlobTempPath(NewUlid(p, proc[p].calls, 1)))
      /\ ~Exists(fs, BlobTempPath(NewUlid(p, proc[p].calls - 1, 1)))

\* The same non-empty executable content has been added twice in a row.
C2_Witness ==
  /\ SameBlobAgain(1)
  /\ proc[1].executable
  /\ Len(proc[1].contents) > 0

\* A caller that has written only part of its content.
Partial(p) ==
  /\ proc[p].op = "add_blob"
  /\ proc[p].pos < Len(proc[p].contents)
  /\ \/ proc[p].pc = "blob_copy"
     \/ proc[p].pc = "idle" /\ proc[p].result.err = "IoError"

\* C3: in every interleaving of add_blob calls, reader failures included, a
\* file under a final name blobs/<hash>[.x] holds the complete content with
\* that hash; every other file under blobs/ has a temp name; partially
\* written content is under its writer's temp name; and two writers never
\* share a temp name.
C3_FinalNamesComplete ==
  /\ \A path \in Children(fs, <<BLOBS>>) :
       \/ /\ IsFinalName(path[2])
          /\ fs[path].type = "file"
          /\ Blake3(fs[path].data) = path[2][2]
          /\ (path[2][3] = ".x") = fs[path].exec
       \/ IsTempName(path[2])
  /\ \A p \in Procs :
       Partial(p) =>
         /\ IsTempName(BlobTempPath(proc[p].ulid)[2])
         /\ Exists(fs, BlobTempPath(proc[p].ulid))
         /\ fs[BlobTempPath(proc[p].ulid)].data =
              SubSeq(proc[p].contents, 1, proc[p].pos)
  /\ \A p, q \in Procs :
       (p # q /\ proc[p].pc = "blob_copy" /\ proc[q].pc = "blob_copy") =>
         BlobTempPath(proc[p].ulid) # BlobTempPath(proc[q].ulid)

\* Two writers are copying at once, and one has written part of its content.
C3_Witness ==
  \E p, q \in Procs :
    /\ p # q
    /\ proc[p].pc = "blob_copy" /\ proc[p].pos = 1
    /\ Len(proc[p].contents) > 1
    /\ proc[q].pc = "blob_copy"

(***************************************************************************)
(* add_named_blob and add_alias (brioche-resources/src/lib.rs).            *)
(***************************************************************************)

AliasName == {<<"name", "a">>, <<"name", "b">>}

\* target_path.file_name()
FileName(path) == path[Len(path)]

\* pathdiff::diff_paths(path, base): up from base to the common ancestor,
\* then down to path.
RECURSIVE CommonLen(_, _)
CommonLen(a, b) ==
  IF a = <<>> \/ b = <<>> \/ Head(a) # Head(b) THEN 0
  ELSE 1 + CommonLen(Tail(a), Tail(b))

DiffPaths(path, base) ==
  LET n == CommonLen(path, base)
  IN  [i \in 1..(Len(base) - n) |-> DOTDOT] \o SubSeq(path, n + 1, Len(path))

\* Where a relative symlink target leads from the directory holding the link.
RECURSIVE Resolve(_, _)
Resolve(dir, rel) ==
  IF rel = <<>> THEN dir
  ELSE IF Head(rel) = DOTDOT
       THEN Resolve(SubSeq(dir, 1, Len(dir) - 1), Tail(rel))
       ELSE Resolve(Append(dir, Head(rel)), Tail(rel))

\* resource_dir.join("<target_name>-<ulid>-alias")
AliasTempDir(target_name, ulid) == << <<"alias-tmp", target_name, ulid>> >>

\* resource_dir.join("aliases").join(name)
AliasParentDir(name) == <<ALIASES, name>>

\* alias_parent_dir.join(target_name)
AliasDir(name, target_name) == Append(AliasParentDir(name), target_name)

\* alias_dir.join(name)
AliasPath(name, target_name) == Append(AliasDir(name, target_name), name)

\* The error kinds of a failed rename that add_alias recovers from
\* (lines 312-314).
RenameToleratedOnlyExists(kind) == kind = "AlreadyExists"
RenameTolerated(kind) == kind \in {"AlreadyExists", "DirectoryNotEmpty"}

\* What rename(2) may report for a non-empty target directory (ENOTEMPTY or
\* EEXIST).
RenameBlockedKind == {"AlreadyExists", "DirectoryNotEmpty"}

\* The temp dir and the link target of p's add_alias call.
AliasTemp(p) == AliasTempDir(FileName(proc[p].target), proc[p].ulid)
AliasLink(p) ==
  DiffPaths(proc[p].target, AliasDir(proc[p].name, FileName(proc[p].target)))

\* add_named_blob is called (lines 172-180).
NamedBlobBegin(p) ==
  /\ proc[p].pc = "idle"
  /\ CallsBegun < MaxCalls
  /\ \E c \in BlobContents, x \in BOOLEAN, name \in AliasName :
       AddBlobStart(p, "add_named_blob", c, x, name)
  /\ StoreFrame

\* add_alias: the temporary alias dir is created under a fresh ulid name
\* (lines 286-292).
AliasMkdir(p) ==
  /\ proc[p].pc = "alias_mkdir"
  /\ LET ulid == NewUlid(p, proc[p].calls, 2)
         temp == AliasTempDir(FileName(proc[p].target), ulid)
     IN  IF Exists(fs, temp)
         THEN /\ proc' = [proc EXCEPT ![p] =
                  [@ EXCEPT !.pc = "idle", !.ulid = ulid,
                            !.result = ErrResult("AlreadyExists")]]
              /\ fs' = fs
         ELSE /\ proc' = [proc EXCEPT ![p] =
                  [@ EXCEPT !.pc = "alias_symlink", !.ulid = ulid]]
              /\ fs' = CreateDir(fs, temp)
  /\ StoreFrame

\* The symlink is made inside the temporary dir (lines 295-299).
AliasSymlink(p) ==
  /\ proc[p].pc = "alias_symlink"
  /\ fs' = Symlink(fs, Append(AliasTemp(p), proc[p].name), AliasLink(p))
  /\ proc' = [proc EXCEPT ![p] = [@ EXCEPT !.pc = "alias_parent"]]
  /\ StoreFrame

\* create_dir_all(alias_parent_dir) (line 302).
AliasParent(p) ==
  /\ proc[p].pc = "alias_parent"
  /\ fs' = CreateDirAll(fs, AliasParentDir(proc[p].name))
  /\ proc' = [proc EXCEPT ![p] = [@ EXCEPT !.pc = "alias_rename"]]
  /\ StoreFrame

\* rename(alias_temp_dir, alias_dir) and the match on its result
\* (lines 306-339).
AliasRename(p) ==
  /\ proc[p].pc = "alias_rename"
  /\ LET alias_dir == AliasDir(proc[p].name, FileName(proc[p].target))
         alias_path == AliasPath(proc[p].name, FileName(proc[p].target))
     IN  IF RenameDirBlocked(fs, alias_dir)
         THEN /\ fs' = fs
              /\ \E kind \in RenameBlockedKind :
                   proc' = [proc EXCEPT ![p] =
                     IF RenameTolerated(kind)
                     THEN [@ EXCEPT !.pc = "alias_cleanup"]
                     ELSE [@ EXCEPT !.pc = "idle",
                                    !.result = ErrResult(kind)]]
         ELSE /\ fs' = RenameDir(fs, AliasTemp(p), alias_dir)
              /\ proc' = [proc EXCEPT ![p] =
                   [@ EXCEPT !.pc = "idle", !.result = OkResult(alias_path)]]
  /\ StoreFrame

\* remove_dir_all(alias_temp_dir) (line 320).
AliasCleanup(p) ==
  /\ proc[p].pc = "alias_cleanup"
  /\ fs' = RemoveDirAll(fs, AliasTemp(p))
  /\ proc' = [proc EXCEPT ![p] = [@ EXCEPT !.pc = "alias_retry"]]
  /\ StoreFrame

\* The symlink is tried at its final path; AlreadyExists is accepted, any
\* other error is returned (lines 323-335).
AliasRetry(p) ==
  /\ proc[p].pc = "alias_retry"
  /\ LET alias_dir == AliasDir(proc[p].name, FileName(proc[p].target))
         alias_path == AliasPath(proc[p].name, FileName(proc[p].target))
     IN  IF Exists(fs, alias_path)
         THEN /\ fs' = fs
              /\ proc' = [proc EXCEPT ![p] =
                   [@ EXCEPT !.pc = "idle", !.result = OkResult(alias_path)]]
         ELSE IF IsDir(fs, alias_dir)
         THEN /\ fs' = Symlink(fs, alias_path, AliasLink(p))
              /\ proc' = [proc EXCEPT ![p] =
                   [@ EXCEPT !.pc = "idle", !.result = OkResult(alias_path)]]
         ELSE /\ fs' = fs
              /\ proc' = [proc EXCEPT ![p] =
                   [@ EXCEPT !.pc = "idle", !.result = ErrResult("NotFound")]]
  /\ StoreFrame

AliasStep(p) ==
  \/ AliasMkdir(p)
  \/ AliasSymlink(p)
  \/ AliasParent(p)
  \/ AliasRename(p)
  \/ AliasCleanup(p)
  \/ AliasRetry(p)

(***************************************************************************)
(* add_resource_directory and hash_directory                               *)
(* (brioche-resources/src/lib.rs).                                         *)
(***************************************************************************)

\* The resource dir the callers pass (an absolute path).
RESOURCE_DIR == << <<"resource_dir">> >>

\* File names inside a source directory, numbered in their sort order.
Entry(n) == <<"entry", n>>

\* The source directories the callers add: a tree is a function from the
\* paths below its root (<<>> is the root) to nodes.
TreeOf(nodes) == [r \in {<<>>} \cup DOMAIN nodes |->
                    IF r = <<>> THEN DirNode ELSE nodes[r]]

SourceTree ==
  { TreeOf(<<>>),
    TreeOf((<<Entry(1)>> :> FileNode(<<1>>, FALSE))),
    TreeOf((<<Entry(1)>> :> FileNode(<<1>>, TRUE))),
    TreeOf((<<Entry(1)>> :> SymlinkNode(<<Entry(2)>>))),
    TreeOf((<<Entry(1)>> :> DirNode) @@
           (<<Entry(1), Entry(1)>> :> FileNode(<<>>, FALSE)) @@
           (<<Entry(2)>> :> FileNode(<<1>>, FALSE))) }

\* The tree found at a directory of the file system.
SubtreeAt(f, dir) ==
  [r \in {SubSeq(q, Len(dir) + 1, Len(q)) : q \in Under(f, dir)} |->
     f[dir \o r]]

\* copy_dir::copy_dir(source, dest): files keep their permission bits,
\* symlinks are recreated.
CopyDir(f, source, dest) ==
  [q \in DOMAIN f \cup {dest \o r : r \in DOMAIN source} |->
     IF IsPrefix(dest, q) /\ SubSeq(q, Len(dest) + 1, Len(q)) \in DOMAIN source
     THEN source[SubSeq(q, Len(dest) + 1, Len(q))]
     ELSE f[q]]

\* WalkDir::sort_by_file_name: a directory comes before its entries, which
\* come in the order of their file names.
RECURSIVE PathBefore(_, _)
PathBefore(a, b) ==
  IF a = <<>> THEN b # <<>>
  ELSE IF b = <<>> THEN FALSE
  ELSE IF Head(a) = Head(b) THEN PathBefore(Tail(a), Tail(b))
  ELSE Head(a)[2] < Head(b)[2]

RECURSIVE SortedWalk(_, _)
SortedWalk(root, rels) ==
  IF rels = {} THEN <<>>
  ELSE LET first == CHOOSE a \in rels :
                      \A b \in rels \ {a} : PathBefore(a, b)
       IN  <<root \o first>> \o SortedWalk(root, rels \ {first})

\* DirEntry::path(): the path given to WalkDir::new joined with the entry's
\* path below it; the walk is rooted at resource_dir/directories/<ulid>.
EntryPath(q) == RESOURCE_DIR \o q

\* What hash_directory feeds the hasher for one entry (lines 252-270).
EntryRecord(f, q) ==
  IF f[q].type = "file"
  THEN <<"f", EntryPath(q), Len(f[q].data), f[q].exec, f[q].data>>
  ELSE IF f[q].type = "dir"
  THEN <<"d", EntryPath(q)>>
  ELSE <<"s", EntryPath(q), Len(f[q].target), f[q].target>>

RECURSIVE HashEntries(_, _, _)
HashEntries(f, entries, hasher) ==
  IF entries = <<>> THEN hasher
  ELSE HashEntries(f, Tail(entries),
                   HasherUpdate(hasher, <<EntryRecord(f, Head(entries))>>))

\* hash_directory(path) (lines 240-275).
HashDirectory(f, path) ==
  HasherFinalize(
    HashEntries(f, SortedWalk(path, DOMAIN SubtreeAt(f, path)), HasherNew))

\* resources_directories_dir.join(temp_name)
DirTempPath(ulid) == <<DIRECTORIES, <<"ulid", ulid>>>>

\* format!("{directory_hash}.d")
DirectoryName(hash) == <<"blake3d", hash, ".d">>

DirectoryPath(hash) == <<DIRECTORIES, DirectoryName(hash)>>

\* The stored directories (final names) that hold exactly this tree.
StoredAs(f, source) ==
  {dir \in Children(f, <<DIRECTORIES>>) :
     dir[2][1] = "blake3d" /\ SubtreeAt(f, dir) = source}

\* add_resource_directory starts (also within add_named_resource_directory):
\* directories/ is created and the ulid temp name is drawn (lines 196-204).
AddDirStart(p, op, source, name) ==
  LET stored == StoredAs(fs, source)
  IN  /\ proc' = [proc EXCEPT ![p] =
            [@ EXCEPT !.pc = "dir_copy", !.op = op,
                      !.contents = <<>>, !.executable = FALSE,
                      !.name = name, !.source = source, !.target = <<>>,
                      !.calls = @ + 1,
                      !.ulid = NewUlid(p, proc[p].calls + 1, 1),
                      !.pos = 0, !.hasher = HasherNew, !.result = NoResult,
                      !.again = stored # {},
                      !.prevPath = IF stored = {} THEN <<>>
                                   ELSE CHOOSE dir \in stored : TRUE,
                      !.before = <<>>]]
      /\ fs' = CreateDirAll(fs, <<DIRECTORIES>>)

\* add_resource_directory is called.
DirBegin(p) ==
  /\ proc[p].pc = "idle"
  /\ CallsBegun < MaxCalls
  /\ \E source \in SourceTree :
       AddDirStart(p, "add_resource_directory", source, <<"">>)
  /\ StoreFrame

\* copy_dir(source, temp_path)? (line 205).
DirCopy(p) ==
  /\ proc[p].pc = "dir_copy"
  /\ IF Exists(fs, DirTempPath(proc[p].ulid))
     THEN /\ fs' = fs
          /\ proc' = [proc EXCEPT ![p] =
               [@ EXCEPT !.pc = "idle", !.result = ErrResult("AlreadyExists")]]
     ELSE /\ fs' = CopyDir(fs, proc[p].source, DirTempPath(proc[p].ulid))
          /\ proc' = [proc EXCEPT ![p] = [@ EXCEPT !.pc = "dir_hash"]]
  /\ StoreFrame

\* hash_directory(&temp_path)? (line 207).
DirHash(p) ==
  /\ proc[p].pc = "dir_hash"
  /\ proc' = [proc EXCEPT ![p] =
       [@ EXCEPT !.pc = "dir_rename",
                 !.hasher = HashDirectory(fs, DirTempPath(proc[p].ulid))]]
  /\ fs' = fs
  /\ StoreFrame

\* rename(temp_path, directory_path)? and the returned subpath
\* (lines 208-216); add_named_resource_directory goes on to add the alias
\* (lines 231-235).
DirRename(p) ==
  /\ proc[p].pc = "dir_rename"
  /\ LET directory_path == DirectoryPath(proc[p].hasher)
     IN  IF RenameDirBlocked(fs, directory_path)
         THEN /\ fs' = fs
              /\ proc' = [proc EXCEPT ![p] =
                   [@ EXCEPT !.pc = "idle",
                             !.result = ErrResult("DirectoryNotEmpty")]]
         ELSE /\ fs' = RenameDir(fs, DirTempPath(proc[p].ulid), directory_path)
              /\ proc' = [proc EXCEPT ![p] =
                   IF proc[p].op = "add_resource_directory"
                   THEN [@ EXCEPT !.pc = "idle",
                                  !.result = OkResult(directory_path)]
                   ELSE [@ EXCEPT !.pc = "alias_mkdir",
                                  !.target = directory_path]]
  /\ StoreFrame

\* Concurrent callers of add_resource_directory on one resource dir.
DirNext ==
  \E p \in Procs :
    \/ DirBegin(p)
    \/ DirCopy(p)
    \/ DirHash(p)
    \/ DirRename(p)

SpecDir == StoreInit /\ [][DirNext]_vars

\* add_named_resource_directory is called (lines 225-231).
NamedDirBegin(p) ==
  /\ proc[p].pc = "idle"
  /\ CallsBegun < MaxCalls
  /\ \E source \in SourceTree, name \in AliasName :
       AddDirStart(p, "add_named_resource_directory", source, name)
  /\ StoreFrame

\* Concurrent callers of add_named_blob and add_named_resource_directory on
\* one resource dir.
AliasNext ==
  \E p \in Procs :
    \/ NamedBlobBegin(p)
    \/ BlobCopy(p)
    \/ BlobReadError(p)
    \/ BlobRename(p)
    \/ NamedDirBegin(p)
    \/ DirCopy(p)
    \/ DirHash(p)
    \/ DirRename(p)
    \/ AliasStep(p)

SpecAlias == StoreInit /\ [][AliasNext]_vars

IsAliasTempName(n) == n[1] = "alias-tmp"

\* The alias dirs aliases/<name>/<target_name> that exist.
AliasDirs == {d \in DOMAIN fs : Len(d) = 3 /\ d[1] = ALIASES}

\* C4: at every instant of every interleaving, an alias directory
\* aliases/<name>/<target_name> that exists is a directory holding at least
\* one entry, and that entry is the alias symlink.
C4_AliasDirNeverEmpty ==
  \A d \in AliasDirs :
    /\ fs[d].type = "dir"
    /\ Children(fs, d) # {}
    /\ \A e \in Children(fs, d) : fs[e].type = "symlink"

\* An alias dir exists, and another caller's rename onto it has just failed.
C4_Witness ==
  /\ AliasDirs # {}
  /\ \E p \in Procs : proc[p].pc = "alias_cleanup"

\* Caller p's add_named_blob call has returned, and its reader did not fail.
NamedBlobDone(p) ==
  /\ proc[p].pc = "idle"
  /\ proc[p].op = "add_named_blob"
  /\ proc[p].result.err # "IoError"

\* No caller is inside a call.
Quiescent == \A p \in Procs : proc[p].pc = "idle"

\* C5: concurrent add_named_blob calls converge: every call (whose reader
\* did not fail) returns Ok with aliases/<name>/<target_name>/<name>, a
\* symlink that resolves to the blob holding the content; once all calls
\* have returned, each alias dir holds exactly one entry and no -alias temp
\* dir remains.
C5_NamedBlobConverges ==
  /\ \A p \in Procs :
       NamedBlobDone(p) =>
         LET target_name == BlobName(Blake3(proc[p].contents),
                                     proc[p].executable)
             alias_dir == <<ALIASES, proc[p].name, target_name>>
             alias_path == Append(alias_dir, proc[p].name)
         IN  /\ proc[p].result = OkResult(alias_path)
             /\ Exists(fs, alias_path)
             /\ fs[alias_path].type = "symlink"
             /\ Resolve(alias_dir, fs[alias_path].target) =
                  <<BLOBS, target_name>>
             /\ Exists(fs, <<BLOBS, target_name>>)
             /\ fs[<<BLOBS, target_name>>] =
                  FileNode(proc[p].contents, proc[p].executable)
  /\ Quiescent =>
       /\ \A d \in AliasDirs : Cardinality(Children(fs, d)) = 1
       /\ \A path \in DOMAIN fs : ~IsAliasTempName(path[1])

\* Two callers have added the same content under the same name, and the
\* second found the alias dir already there.
C5_Witness ==
  /\ Quiescent
  /\ \E p, q \in Procs :
       /\ p # q
       /\ NamedBlobDone(p) /\ NamedBlobDone(q)
       /\ proc[p].contents = proc[q].contents
       /\ proc[p].executable = proc[q].executable
       /\ proc[p].name = proc[q].name
       /\ proc[p].ulid[3] = 2 /\ proc[q].ulid[3] = 2
       /\ Cardinality(AliasDirs) = 1

\* Caller p's add_resource_directory call has returned Ok.
DirDone(p) ==
  /\ proc[p].pc = "idle"
  /\ proc[p].op = "add_resource_directory"
  /\ proc[p].result.status = "ok"

\* C6: the directory hash is a function of the tree alone (paths below the
\* root, entry types, lengths, executable bits, contents, symlink targets),
\* whatever the ulid temp name: two calls are given the same name exactly
\* when their source trees are equal.
C6_HashOfTreeAlone ==
  \A p, q \in Procs :
    (DirDone(p) /\ DirDone(q)) =>
      ((proc[p].source = proc[q].source) <=>
         (proc[p].result.path = proc[q].result.path))

\* C7: add_resource_directory of content the store already held when the
\* call began returns Ok with the stored directory's subpath, leaves that
\* directory as it was, and leaves no temp directory of its own.
C7_StoredAgainConverges ==
  \A p \in Procs :
    (proc[p].pc = "idle" /\ proc[p].op = "add_resource_directory"
       /\ proc[p].again) =>
      /\ proc[p].result = OkResult(proc[p].prevPath)
      /\ SubtreeAt(fs, proc[p].prevPath) = proc[p].source
      /\ ~Exists(fs, DirTempPath(proc[p].ulid))

(***************************************************************************)
(* Resource-dir lookup: find_resource_dirs, find_output_resource_dir,      *)
(* find_in_resource_dirs (brioche-resources/src/lib.rs).                   *)
(***************************************************************************)

SEARCH_DEPTH_LIMIT == 64

\* Bounds of the lookup's inputs: the deepest program path, and the longest
\* value of BRIOCHE_INPUT_RESOURCE_DIRS.
MaxDepth == 66
MaxVarLen == 2

COLON == 58

\* The bytes of an environment variable's value.
VarByte == {COLON, 97}

\* The directories the lookup lists: the value of BRIOCHE_RESOURCE_DIR, an
\* entry of BRIOCHE_INPUT_RESOURCE_DIRS, or <ancestor>/brioche-resources.d
\* for the program's ancestor at a level (1 is the program's parent).
OutputDir == <<"output", "BRIOCHE_RESOURCE_DIR">>
InputDir(bytes) == <<"input", bytes>>
AncestorDir(level) == <<"ancestor", level>>

\* Vec::push
PushFront(paths, dir) == <<dir>> \o paths
Push(paths, dir) == Append(paths, dir)

\* <[u8]>::split_str(b":") and std::env::split_paths on Unix: the pieces
\* between the colons, empty ones included.
RECURSIVE SplitColon(_, _)
SplitColon(bytes, piece) ==
  IF bytes = <<>> THEN <<piece>>
  ELSE IF Head(bytes) = COLON
       THEN <<piece>> \o SplitColon(Tail(bytes), <<>>)
       ELSE SplitColon(Tail(bytes), Append(piece, Head(bytes)))

SplitStr(value) == SplitColon(value, <<>>)
SplitPaths(value) == SplitColon(value, <<>>)

RECURSIVE PushAll(_, _)
PushAll(paths, entries) ==
  IF entries = <<>> THEN paths
  ELSE PushAll(Push(paths, InputDir(Head(entries))), Tail(entries))

\* The paths taken from the environment (lines 15-34).
EnvPaths(in, include_readonly) ==
  LET first == IF in.output_set THEN Push(<<>>, OutputDir) ELSE <<>>
  IN  IF include_readonly /\ in.inputs_set
      THEN PushAll(PushAll(first, SplitStr(in.inputs)), SplitPaths(in.inputs))
      ELSE first

\* The result of the walk (lines 98-104).
WalkOutcomeDepthFirst(found, reached_end) ==
  IF ~reached_end THEN "DepthLimitReached"
  ELSE IF found THEN "none" ELSE "NotFound"
WalkOutcome(found, reached_end) ==
  IF found THEN "none"
  ELSE IF reached_end THEN "NotFound" ELSE "DepthLimitReached"

\* The match on the walk's result and the test of the list (lines 36-47).
\* `built` is the list as the function left it, also when it returns an
\* error.
Finish(err, paths) ==
  IF err \in {"none", "NotFound"}
  THEN IF paths = <<>>
       THEN [err |-> "NotFound", paths |-> <<>>, built |-> paths]
       ELSE [err |-> "none", paths |-> paths, built |-> paths]
  ELSE [err |-> err, paths |-> <<>>, built |-> paths]

\* find_output_resource_dir on the result of find_resource_dirs(program,
\* false) (lines 50-57).
FirstOf(r) ==
  IF r.err # "none" THEN [err |-> r.err, dir |-> <<>>]
  ELSE IF r.paths = <<>> THEN [err |-> "NotFound", dir |-> <<>>]
  ELSE [err |-> "none", dir |-> Head(r.paths)]

\* find_in_resource_dirs (lines 60-69): `present` are the resource dirs in
\* which the subpath exists.
RECURSIVE FindInResourceDirs(_, _)
FindInResourceDirs(resource_dirs, present) ==
  IF resource_dirs = <<>> THEN <<>>
  ELSE IF Head(resource_dirs) \in present
       THEN <<Head(resource_dirs)>>
       ELSE FindInResourceDirs(Tail(resource_dirs), present)

Depths == {0, 1, 2, SEARCH_DEPTH_LIMIT - 1, SEARCH_DEPTH_LIMIT,
           SEARCH_DEPTH_LIMIT + 1, MaxDepth}

\* The levels at which a brioche-resources.d directory may stand.
DirLevels == {1, SEARCH_DEPTH_LIMIT, SEARCH_DEPTH_LIMIT + 1}

FindInputs ==
  [output_set : BOOLEAN,
   inputs_set : BOOLEAN,
   inputs : SeqsUpTo(VarByte, MaxVarLen),
   include_readonly : BOOLEAN,
   cwd_fails : BOOLEAN,
   depth : Depths,
   has : SUBSET DirLevels]

NoWalk ==
  [op |-> "none", include_readonly |-> FALSE, level |-> 0, iter |-> 0,
   found |-> FALSE, reached_end |-> FALSE, paths |-> <<>>]

NoLookup == [err |-> "", paths |-> <<>>, built |-> <<>>]
NoOutput == [err |-> "", dir |-> <<>>]

FindStart ==
  /\ fdPhase = "start"
  /\ fdIn \in {in \in FindInputs :
                 /\ in.has \subseteq 1..in.depth
                 /\ ~in.inputs_set => in.inputs = <<>>}
  /\ fdWalk = NoWalk
  /\ fdResult = NoLookup
  /\ fdPresent = {}
  /\ fdHit = <<>>
  /\ fdOutput = NoOutput

FindFrame == UNCHANGED <<packVars, storeVars, kindVars, libVars, autoVars, scriptVars, execVars, stubVars, rebaseVars, repackVars, ldVars>>

\* find_resource_dirs has its result: it returns it, and
\* find_output_resource_dir takes the first directory.
Return(op, r) ==
  /\ fdResult' = r
  /\ fdOutput' = IF op = "find_output_resource_dir" THEN FirstOf(r)
                 ELSE NoOutput
  /\ fdPhase' = "returned"

\* find_resource_dirs(program, include_readonly) is called, directly or by
\* find_output_resource_dir (with include_readonly = false): the paths of
\* the environment are listed and the walk is set up (lines 11-80).  
\* in.depth is the number of ancestor directories of the joined program path
\* (0: the path is the root and has no parent); the root is the ancestor at
\* level in.depth.
FdBegin(op) ==
  /\ fdPhase = "start"
  /\ LET include_readonly ==
           op = "find_resource_dirs" /\ fdIn.include_readonly
         paths == EnvPaths(fdIn, include_readonly)
         walk == [op |-> op, include_readonly |-> include_readonly,
                  level |-> 1, iter |-> 0, found |-> FALSE,
                  reached_end |-> FALSE, paths |-> paths]
     IN  /\ fdWalk' = walk
         /\ IF fdIn.cwd_fails THEN Return(op, Finish("IoError", paths))
            ELSE IF fdIn.depth = 0 THEN Return(op, Finish("NotFound", paths))
            ELSE /\ fdPhase' = "walk"
                 /\ UNCHANGED <<fdResult, fdOutput>>
  /\ UNCHANGED <<fdIn, fdPresent, fdHit>>
  /\ FindFrame

\* One iteration of the loop over the program's ancestors (lines 82-96).
FdWalkStep ==
  /\ fdPhase = "walk"
  /\ fdWalk.iter < SEARCH_DEPTH_LIMIT
  /\ ~fdWalk.reached_end
  /\ LET is_dir == fdWalk.level \in fdIn.has
         at_root == fdWalk.level = fdIn.depth
     IN  fdWalk' = [fdWalk EXCEPT
           !.paths = IF is_dir THEN Push(@, AncestorDir(fdWalk.level)) ELSE @,
           !.found = @ \/ is_dir,
           !.reached_end = at_root,
           !.level = IF at_root THEN @ ELSE @ + 1,
           !.iter = @ + 1]
  /\ UNCHANGED <<fdPhase, fdIn, fdResult, fdPresent, fdHit, fdOutput>>
  /\ FindFrame

\* The loop is left, by break or by its bound, and the function returns
\* (lines 98-104, 36-47).
FdWalkEnd ==
  /\ fdPhase = "walk"
  /\ fdWalk.iter = SEARCH_DEPTH_LIMIT \/ fdWalk.reached_end
  /\ Return(fdWalk.op,
            Finish(WalkOutcome(fdWalk.found, fdWalk.reached_end),
                   fdWalk.paths))
  /\ UNCHANGED <<fdIn, fdWalk, fdPresent, fdHit>>
  /\ FindFrame

\* find_in_resource_dirs(dirs, subpath) is called on the list returned.
FdFindIn ==
  /\ fdPhase = "returned"
  /\ fdWalk.op = "find_resource_dirs"
  /\ fdResult.err = "none"
  /\ \E present \in SUBSET {fdResult.paths[i] : i \in 1..Len(fdResult.paths)} :
       /\ Cardinality(present) <= 2
       /\ fdPresent' = present
       /\ fdHit' = FindInResourceDirs(fdResult.paths, present)
  /\ fdPhase' = "looked"
  /\ UNCHANGED <<fdIn, fdWalk, fdResult, fdOutput>>
  /\ FindFrame

FindNext ==
  \/ FdBegin("find_resource_dirs")
  \/ FdBegin("find_output_resource_dir")
  \/ FdWalkStep
  \/ FdWalkEnd
  \/ FdFindIn

FindInit == FindStart /\ PackIdle /\ StoreIdle /\ KindIdle /\ LibIdle /\ AutoIdle /\ ScriptIdle /\ ExecIdle /\ StubIdle /\ RebaseIdle /\ RepackIdle /\ LdIdle

SpecFind == FindInit /\ [][FindNext]_vars

IsOutput(dir) == dir[1] = "output"
IsInput(dir) == dir[1] = "input"
IsAncestor(dir) == dir[1] = "ancestor"

\* Where a listed directory comes from: 1 the output variable, 2 the input
\* variable, 3 the program's ancestors.
Rank(dir) == IF IsOutput(dir) THEN 1 ELSE IF IsInput(dir) THEN 2 ELSE 3

\* The ancestors the walk examines, and those holding brioche-resources.d.
Examined ==
  1..(IF fdIn.depth < SEARCH_DEPTH_LIMIT THEN fdIn.depth
      ELSE SEARCH_DEPTH_LIMIT)
NearDirs == fdIn.has \cap Examined

\* find_resource_dirs has returned a list.
Listed == fdPhase \in {"returned", "looked"} /\ fdResult.err = "none"

\* C8: the list returned by find_resource_dirs holds BRIOCHE_RESOURCE_DIR
\* first (if set), then, only when include_readonly, the entries of
\* BRIOCHE_INPUT_RESOURCE_DIRS in their order (the run of entries is listed
\* twice over), then the brioche-resources.d directories of the examined
\* ancestors from nearest to farthest; find_in_resource_dirs returns the
\* earliest listed directory that holds the subpath; and
\* find_output_resource_dir never returns an input directory.
C8_LookupOrder ==
  /\ Listed =>
       LET list == fdResult.paths
           entries == SplitColon(fdIn.inputs, <<>>)
           named == [i \in 1..Len(entries) |-> InputDir(entries[i])]
           ancestors == SelectSeq(list, IsAncestor)
       IN  /\ \A i, j \in 1..Len(list) :
                i < j => Rank(list[i]) <= Rank(list[j])
           /\ SelectSeq(list, IsOutput) =
                IF fdIn.output_set THEN <<OutputDir>> ELSE <<>>
           /\ SelectSeq(list, IsInput) =
                IF fdWalk.include_readonly /\ fdIn.inputs_set
                THEN named \o named ELSE <<>>
           /\ {ancestors[i][2] : i \in 1..Len(ancestors)} = NearDirs
           /\ \A i, j \in 1..Len(ancestors) :
                i < j => ancestors[i][2] < ancestors[j][2]
  /\ fdPhase = "looked" =>
       LET list == fdResult.paths
           hits == {i \in 1..Len(list) : list[i] \in fdPresent}
       IN  IF hits = {} THEN fdHit = <<>>
           ELSE /\ fdHit # <<>>
                /\ \E k \in hits :
                     /\ fdHit[1] = list[k]
                     /\ \A i \in hits : k <= i
  /\ (fdPhase = "returned" /\ fdWalk.op = "find_output_resource_dir"
        /\ fdOutput.err = "none") =>
       /\ ~IsInput(fdOutput.dir)
       /\ fdOutput.dir = fdResult.paths[1]
       /\ fdIn.output_set => fdOutput.dir = OutputDir

\* The list holds directories of all three origins, and the subpath looked
\* for is present in an input directory and in an ancestor's directory.
C8_Witness ==
  /\ fdPhase = "looked"
  /\ \E i, j, k \in 1..Len(fdResult.paths) :
       /\ IsOutput(fdResult.paths[i])
       /\ IsInput(fdResult.paths[j])
       /\ IsAncestor(fdResult.paths[k])
       /\ fdPresent = {fdResult.paths[j], fdResult.paths[k]}
  /\ fdHit # <<>>
  /\ IsInput(fdHit[1])

\* find_resource_dirs has returned, and the current directory could be read.
Looked == fdPhase \in {"returned", "looked"} /\ ~fdIn.cwd_fails

\* 64 ancestors were examined without reaching the root.
Deep == fdIn.depth > SEARCH_DEPTH_LIMIT

\* C9 as stated: NotFound exactly when the resulting list is empty,
\* DepthLimitReached when 64 ancestors were examined without reaching the
\* root, and the non-empty list in every other case.
C9_AsStated ==
  Looked =>
    /\ (fdResult.err = "NotFound") <=> (fdResult.built = <<>>)
    /\ Deep => fdResult.err = "DepthLimitReached"
    /\ (~Deep /\ fdResult.built # <<>>) =>
         (fdResult.err = "none" /\ fdResult.paths = fdResult.built)

\* C9, amended: DepthLimitReached exactly when 64 ancestors were examined
\* without reaching the root and none of them holds brioche-resources.d
\* (whatever the environment contributed); otherwise NotFound exactly when
\* the resulting list is empty, and the non-empty list in every other case.
\* When the current directory cannot be read the error is IoError.
C9_ErrorsAmended ==
  /\ Looked =>
       /\ (fdResult.err = "DepthLimitReached") <=> (Deep /\ NearDirs = {})
       /\ ~(Deep /\ NearDirs = {}) =>
            /\ (fdResult.err = "NotFound") <=> (fdResult.built = <<>>)
            /\ fdResult.built # <<>> =>
                 (fdResult.err = "none" /\ fdResult.paths = fdResult.built)
  /\ (fdPhase \in {"returned", "looked"} /\ fdIn.cwd_fails) =>
       fdResult.err = "IoError"

\* The program lies more than 64 levels deep, the walk stopped short of the
\* root, and a nearby brioche-resources.d made the call succeed.
C9_Witness ==
  /\ Looked
  /\ Deep
  /\ fdWalk.iter = SEARCH_DEPTH_LIMIT
  /\ ~fdWalk.reached_end
  /\ NearDirs # {}
  /\ fdResult.err = "none"

(***************************************************************************)
(* The autopack classifier: autopack_kind (brioche-autopack/src/lib.rs).   *)
(***************************************************************************)

SHEBANG == <<35, 33>>
ELF_MAGIC == <<127, 69, 76, 70>>
ARCHIVE_MAGIC == <<33, 60>>
ET_EXEC == 2
ET_DYN == 3
EHSIZE == 64

\* <[u8]>::starts_with
StartsWith(contents, prefix) ==
  Len(prefix) <= Len(contents) /\ SubSeq(contents, 1, Len(prefix)) = prefix

\* goblin::Object::parse, reduced to what autopack_kind reads of it.  An ELF
\* header is the magic, one byte for e_type, one for the count of PT_INTERP
\* program headers and one for e_ehsize; contents that start with the magic
\* but not with a whole well-formed header are a parse error; other contents
\* are objects of another or of unknown kind.
GoblinParse(contents) ==
  LET n == Len(ELF_MAGIC)
  IN  IF StartsWith(contents, ELF_MAGIC)
      THEN IF /\ Len(contents) >= n + 3
              /\ contents[n + 1] \in {ET_EXEC, ET_DYN}
              /\ contents[n + 2] \in {0, 1}
              /\ contents[n + 3] = EHSIZE
           THEN [kind |-> "elf",
                 interpreter |-> contents[n + 2] > 0,
                 is_lib |-> contents[n + 1] = ET_DYN]
           ELSE [kind |-> "error", interpreter |-> FALSE, is_lib |-> FALSE]
      ELSE IF StartsWith(contents, ARCHIVE_MAGIC)
      THEN [kind |-> "archive", interpreter |-> FALSE, is_lib |-> FALSE]
      ELSE [kind |-> "unknown", interpreter |-> FALSE, is_lib |-> FALSE]

\* autopack_kind on the bytes read (lines 499-545).
AutopackKindScriptFirst(contents) ==
  IF StartsWith(contents, SHEBANG) THEN "Script"
  ELSE IF ExtractOk(contents) THEN "Repack"
  ELSE "None"
AutopackKind(contents) ==
  IF ExtractOk(contents) THEN "Repack"
  ELSE IF StartsWith(contents, SHEBANG) THEN "Script"
  ELSE LET program_object == GoblinParse(contents)
       IN  IF program_object.kind # "elf" THEN "None"
           ELSE IF program_object.interpreter THEN "DynamicBinary"
           ELSE IF program_object.is_lib THEN "SharedLibrary"
           ELSE "None"

\* The files classified: what stands at the start of the file, and what
\* stands at its end.
KindHeads ==
  { [is |-> "empty", bytes |-> <<>>],
    [is |-> "text", bytes |-> <<47>>],
    [is |-> "text", bytes |-> <<35>>],
    [is |-> "script", bytes |-> SHEBANG],
    [is |-> "script", bytes |-> SHEBANG \o <<47>>],
    [is |-> "archive", bytes |-> ARCHIVE_MAGIC],
    [is |-> "elf_cut", bytes |-> ELF_MAGIC],
    [is |-> "elf_cut", bytes |-> ELF_MAGIC \o <<ET_DYN>>],
    [is |-> "elf_cut", bytes |-> ELF_MAGIC \o <<ET_DYN, 1>>],
    [is |-> "elf_static", bytes |-> ELF_MAGIC \o <<ET_EXEC, 0, EHSIZE>>],
    [is |-> "elf_interp", bytes |-> ELF_MAGIC \o <<ET_EXEC, 1, EHSIZE>>],
    [is |-> "elf_lib", bytes |-> ELF_MAGIC \o <<ET_DYN, 0, EHSIZE>>],
    [is |-> "elf_lib_interp", bytes |-> ELF_MAGIC \o <<ET_DYN, 1, EHSIZE>>] }

KindTails ==
  { [packed |-> FALSE, bytes |-> <<>>],
    [packed |-> FALSE, bytes |-> MARKER],
    [packed |-> FALSE, bytes |-> LengthBytes(0) \o MARKER],
    [packed |-> FALSE, bytes |-> MARKER \o LengthBytes(1) \o MARKER] }
  \cup {[packed |-> TRUE, bytes |-> InjectPayload(p)] : p \in Packs}

KindStart ==
  /\ akPhase = "start"
  /\ akFile \in [head : KindHeads, tail : KindTails, readable : BOOLEAN]
  /\ akKind = "none"

KindFrame == UNCHANGED <<packVars, storeVars, findVars, libVars, autoVars, scriptVars, execVars, stubVars, rebaseVars, repackVars, ldVars>>

\* autopack_kind(path) is called: the file is read (an error is returned if
\* it cannot be) and classified.
AkClassify ==
  /\ akPhase = "start"
  /\ akKind' = IF akFile.readable
               THEN AutopackKind(akFile.head.bytes \o akFile.tail.bytes)
               ELSE "Err"
  /\ akPhase' = "classified"
  /\ UNCHANGED akFile
  /\ KindFrame

KindNext == AkClassify

KindInit == KindStart /\ PackIdle /\ StoreIdle /\ FindIdle /\ LibIdle /\ AutoIdle /\ ScriptIdle /\ ExecIdle /\ StubIdle /\ RebaseIdle /\ RepackIdle /\ LdIdle

SpecKind == KindInit /\ [][KindNext]_vars

\* C10: the classifier tests in the order Repack, Script, DynamicBinary,
\* SharedLibrary, None: a file that ends in a pack is Repack whatever it
\* starts with; else a file starting with "#!" is Script; else an ELF with
\* PT_INTERP is DynamicBinary, also when flagged as a library; else an ELF
\* flagged as a library is SharedLibrary; everything else that could be read
\* (an ELF cut short, another object, text, a broken trailer) is None, and
\* never an error.
C10_ClassifierPriority ==
  (akPhase = "classified" /\ akFile.readable) =>
    akKind =
      IF akFile.tail.packed THEN "Repack"
      ELSE IF akFile.head.is = "script" THEN "Script"
      ELSE IF akFile.head.is \in {"elf_interp", "elf_lib_interp"}
           THEN "DynamicBinary"
      ELSE IF akFile.head.is = "elf_lib" THEN "SharedLibrary"
      ELSE "None"

\* A script that carries a pack has been classified.
C10_Witness ==
  /\ akPhase = "classified"
  /\ akFile.readable
  /\ akFile.head.is = "script"
  /\ akFile.tail.packed
  /\ akKind = "Repack"

(***************************************************************************)
(* The library closure resolver: collect_all_library_dirs and find_library *)
(* as called by autopack_dynamic_binary and autopack_shared_library        *)
(* (brioche-autopack/src/lib.rs).                                          *)
(***************************************************************************)

\* The longest DT_NEEDED list of the file being packed.
MaxNeeded == 2

\* Library names.
Lib == {1, 2, 3}

\* The search directories: the one of dynamic_linking.library_paths, and the
\* resource library dir that the pack carried by library 1 advertises.
LIB_DIR == "lib"
ADV_DIR == "adv"

\* The inputs of a run: the handler, the DT_NEEDED list of the file, the
\* dynamic linking config, the DT_NEEDED list of every library, and where
\* library 3 is to be found.
LibInputs ==
  [handler : {"dynamic_binary", "shared_library"},
   libraries : SeqsUpTo({1, 2}, MaxNeeded),
   extra_libraries : {<<>>, <<3>>},
   skip_libraries : SUBSET Lib,
   skip_unknown_libraries : BOOLEAN,
   needs : {n \in [Lib -> SeqsUpTo(Lib, 1)] :
              /\ n[1] \in {<<>>, <<2>>, <<3>>}
              /\ n[2] \in {<<>>, <<1>>, <<3>>}
              /\ n[3] \in {<<>>, <<1>>}},
   where3 : {LIB_DIR, ADV_DIR, "none"}]

\* The library files a search directory holds.
DirHolds(in, dir) ==
  IF dir = LIB_DIR
  THEN {1, 2} \cup (IF in.where3 = LIB_DIR THEN {3} ELSE {})
  ELSE IF in.where3 = ADV_DIR THEN {3} ELSE {}

\* find_library over search paths that are directories (lines 1178-1189):
\* the file in the first directory that holds the name, or none.
RECURSIVE FindLibrary(_, _, _)
FindLibrary(in, library_search_paths, library_name) ==
  IF library_search_paths = <<>> THEN <<>>
  ELSE IF library_name \in DirHolds(in, Head(library_search_paths))
       THEN <<Head(library_search_paths), library_name>>
       ELSE FindLibrary(in, Tail(library_search_paths), library_name)

\* The library dirs of the pack a library file carries, as resolved by
\* find_in_resource_dirs (lines 1130-1164).
PackLibraryDirs(library_name) ==
  IF library_name = 1 THEN <<ADV_DIR>> ELSE <<>>

\* The parent of the alias path add_named_blob_from returns for a library
\* (lines 1065-1082).
LibraryResourceDir(library_name) ==
  <<ALIASES, <<"name", library_name>>, <<"blob", library_name>>>>

\* The needed_libraries deque each handler builds (lines 624-636, 721-739).
RECURSIVE SelectNotIn(_, _)
SelectNotIn(names, skip) ==
  IF names = <<>> THEN <<>>
  ELSE IF Head(names) \in skip THEN SelectNotIn(Tail(names), skip)
  ELSE <<Head(names)>> \o SelectNotIn(Tail(names), skip)

NeededLibraries(in) ==
  IF in.handler = "dynamic_binary"
  THEN in.libraries \o in.extra_libraries
  ELSE SelectNotIn(in.libraries, in.skip_libraries) \o in.extra_libraries

\* VecDeque::pop_front
PopBack(deque) == [item |-> deque[Len(deque)],
                   rest |-> SubSeq(deque, 1, Len(deque) - 1)]
PopFront(deque) == [item |-> Head(deque), rest |-> Tail(deque)]

NoRun ==
  [needed_libraries |-> <<>>, library_search_paths |-> <<>>,
   resource_library_dirs |-> <<>>, found_libraries |-> {},
   found_library_dirs |-> {}, enqueued |-> <<>>, dequeued |-> <<>>,
   lookups |-> <<>>, ingested |-> <<>>]

LibStart ==
  /\ lbPhase = "start"
  /\ lbIn \in LibInputs
  /\ lbRun = NoRun

LibFrame == UNCHANGED <<packVars, storeVars, findVars, kindVars, autoVars, scriptVars, execVars, stubVars, rebaseVars, repackVars, ldVars>>

\* The handler builds the deque and collect_all_library_dirs sets up its
\* locals (lines 1024-1030).  `enqueued`, `dequeued`, `lookups` and
\* `ingested` record, in order, the names pushed to the deque, popped from
\* it, passed to find_library (with the outcome) and added to the store.
LbCall ==
  /\ lbPhase = "start"
  /\ lbRun' = [NoRun EXCEPT
                 !.needed_libraries = NeededLibraries(lbIn),
                 !.enqueued = NeededLibraries(lbIn),
                 !.library_search_paths = <<LIB_DIR>>]
  /\ lbPhase' = "loop"
  /\ UNCHANGED lbIn
  /\ LibFrame

\* One iteration of the while loop (lines 1032-1166).
LbStep ==
  /\ lbPhase = "loop"
  /\ lbRun.needed_libraries # <<>>
  /\ LET popped == PopFront(lbRun.needed_libraries)
         library_name == popped.item
         run == [lbRun EXCEPT !.needed_libraries = popped.rest,
                              !.dequeued = Append(@, library_name)]
         library_path ==
           FindLibrary(lbIn, lbRun.library_search_paths, library_name)
         looked == [run EXCEPT
                      !.lookups = Append(@, <<library_name,
                                              library_path # <<>>>>)]
         library_resource_dir == LibraryResourceDir(library_name)
         added ==
           IF library_name \in lbIn.skip_libraries
           THEN looked
           ELSE [looked EXCEPT
                   !.ingested = Append(@, library_name),
                   !.found_library_dirs = @ \cup {library_resource_dir},
                   !.resource_library_dirs =
                      IF library_resource_dir \in looked.found_library_dirs
                      THEN @ ELSE Append(@, library_resource_dir)]
     IN  IF library_name \in lbRun.found_libraries
         THEN lbRun' = run /\ lbPhase' = "loop"
         ELSE IF library_path = <<>>
         THEN /\ lbRun' = looked
              /\ lbPhase' = IF lbIn.skip_unknown_libraries THEN "loop"
                            ELSE "failed"
         ELSE /\ lbRun' =
                   [added EXCEPT
                      !.found_libraries = @ \cup {library_name},
                      !.needed_libraries = @ \o lbIn.needs[library_name],
                      !.enqueued = @ \o lbIn.needs[library_name],
                      !.library_search_paths =
                         @ \o PackLibraryDirs(library_name)]
              /\ lbPhase' = "loop"
  /\ UNCHANGED lbIn
  /\ LibFrame

\* The deque is empty: resource_library_dirs is returned (line 1168).
LbReturn ==
  /\ lbPhase = "loop"
  /\ lbRun.needed_libraries = <<>>
  /\ lbPhase' = "done"
  /\ UNCHANGED <<lbIn, lbRun>>
  /\ LibFrame

LibNext == LbCall \/ LbStep \/ LbReturn

LibInit == LibStart /\ PackIdle /\ StoreIdle /\ FindIdle /\ KindIdle /\ AutoIdle /\ ScriptIdle /\ ExecIdle /\ StubIdle /\ RebaseIdle /\ RepackIdle /\ LdIdle

SpecLib == LibInit /\ [][LibNext]_vars

\* The elements of a sequence.
Range(seq) == {seq[i] : i \in 1..Len(seq)}

\* The transitive closure of DT_NEEDED from a set of names.
RECURSIVE NeededClosure(_)
NeededClosure(names) ==
  LET more == names \cup UNION {Range(lbIn.needs[n]) : n \in names}
  IN  IF more = names THEN names ELSE NeededClosure(more)

\* The run has returned, and every name it looked up was found.
ClosureDone ==
  /\ lbPhase = "done"
  /\ \A i \in 1..Len(lbRun.lookups) : lbRun.lookups[i][2]

\* C11: for either handler, the libraries ingested are the transitive
\* closure of DT_NEEDED from the file's DT_NEEDED entries and
\* extra_libraries, minus skip_libraries; the DT_NEEDED entries of a skipped
\* library are still followed.
C11_ClosureComplete ==
  ClosureDone =>
    Range(lbRun.ingested) =
      NeededClosure(Range(lbIn.libraries) \cup Range(lbIn.extra_libraries))
        \ lbIn.skip_libraries

\* The names of the lookups that found their library and were not skipped,
\* in the order of the lookups.
RECURSIVE FoundAndKept(_)
FoundAndKept(lookups) ==
  IF lookups = <<>> THEN <<>>
  ELSE IF Head(lookups)[2] /\ Head(lookups)[1] \notin lbIn.skip_libraries
       THEN <<Head(lookups)[1]>> \o FoundAndKept(Tail(lookups))
       ELSE FoundAndKept(Tail(lookups))

NoDuplicates(seq) ==
  \A i, j \in 1..Len(seq) : i # j => seq[i] # seq[j]

\* C12: the closure is resolved first-in first-out (the names leave the
\* deque in the order they entered it); resource_library_dirs holds each
\* library directory once, in the order in which the libraries were first
\* dequeued and found; and a name already found is never looked up or
\* ingested again.
C12_FifoNoDuplicates ==
  lbPhase \in {"loop", "done", "failed"} =>
    /\ Len(lbRun.dequeued) <= Len(lbRun.enqueued)
    /\ lbRun.dequeued = SubSeq(lbRun.enqueued, 1, Len(lbRun.dequeued))
    /\ NoDuplicates(lbRun.resource_library_dirs)
    /\ lbRun.resource_library_dirs =
         [i \in 1..Len(FoundAndKept(lbRun.lookups)) |->
            LibraryResourceDir(FoundAndKept(lbRun.lookups)[i])]
    /\ lbRun.ingested = FoundAndKept(lbRun.lookups)
    /\ NoDuplicates(lbRun.ingested)
    /\ \A i, j \in 1..Len(lbRun.lookups) :
         (i < j /\ lbRun.lookups[i][2]) =>
           lbRun.lookups[j][1] # lbRun.lookups[i][1]

\* A run has returned three library dirs, with the file needing two
\* libraries, the first of which needs the third (breadth first differs from
\* depth first), and one name entered the deque twice.
C12_Witness ==
  /\ lbPhase = "done"
  /\ Len(lbRun.resource_library_dirs) = 3
  /\ Len(lbIn.libraries) = 2
  /\ lbIn.libraries[1] # lbIn.libraries[2]
  /\ lbIn.needs[lbIn.libraries[1]] = <<3>>
  /\ ~NoDuplicates(lbRun.enqueued)

(***************************************************************************)
(* Autopack engine: autopack, autopack_path, try_autopack_path,             *)
(* autopack_shared_library, try_autopack_dependency                         *)
(*                                                                          *)
(* The input files live in one directory, which is also the only library    *)
(* search path, so a DT_NEEDED name is the path of the file it names.  A    *)
(* file's content is a term: <<"orig", path>> as found, and <<"packed",     *)
(* path, library_dirs>> once a Static pack has been appended to it.  A      *)
(* named blob in the store is <<"blob", alias name, content>>.              *)
(***************************************************************************)
AutoPaths == {1, 2, 3}

\* The ways the path names can sort (BTreeMap order): a sequence holding
\* each path once, smallest first.
Orders ==
  {o \in [1..Cardinality(AutoPaths) -> AutoPaths] :
     \A i, j \in DOMAIN o : i # j => o[i] # o[j]}

\* One file: what autopack_kind answers for it and, for an ELF file, its
\* DT_NEEDED list.  A dynamic binary here has a PT_INTERP that no link
\* dependency holds, so its handler fails.
AutoFiles ==
  {f \in [kind : {"shared_library", "dynamic_binary", "none"},
          libraries : SeqsUpTo(AutoPaths, 1)] :
     f.kind # "shared_library" => f.libraries = <<>>}

\* canonical: whether the input paths are given in canonical form (an
\* absolute recipe path without symlinks), or in another spelling of the
\* same files (a relative recipe path, a symlinked directory).
AutoInputs ==
  {in \in [inputs : {"paths", "globs"},
           matched : SUBSET AutoPaths \ {{}},
           files : [AutoPaths -> AutoFiles],
           allow_empty : BOOLEAN,
           canonical : BOOLEAN,
           order : Orders] :
     \A p \in AutoPaths : in.files[p].libraries # <<p>>}

\* Path::canonicalize of a path to file p, and the key under which autopack
\* put the input path to file p into pending_paths.
CanonicalPath(p) == <<"canonical", p>>
PendingKey(in, p) == IF in.canonical THEN CanonicalPath(p) ELSE <<"as given", p>>

OrigContent(path) == <<"orig", path>>
PackedContent(path, library_dirs) == <<"packed", path, library_dirs>>
NamedBlob(alias_name, content) == <<"blob", alias_name, content>>

\* AutopackInputs::Paths seeds can_skip: true, AutopackInputs::Globs seeds
\* can_skip: false.
CanSkip(in) == in.inputs = "paths"

NoAuto ==
  [files |-> [p \in AutoPaths |-> OrigContent(p)],
   pending_paths |-> {},
   store |-> {},
   autopacked |-> {},
   skipped |-> {},
   dispatched |-> <<>>,
   status |-> "running",
   error |-> <<>>]

Bail(st, path, message) ==
  [st EXCEPT !.status = "err", !.error = <<path, message>>]

\* BTreeMap::pop_last
PopLast(in, pending_paths) ==
  LET i == CHOOSE i \in DOMAIN in.order :
             /\ in.order[i] \in pending_paths
             /\ \A j \in (i + 1)..Len(in.order) : in.order[j] \notin pending_paths
  IN in.order[i]

\* BTreeMap::pop_first
PopFirst(in, pending_paths) ==
  LET i == CHOOSE i \in DOMAIN in.order :
             /\ in.order[i] \in pending_paths
             /\ \A j \in 1..(i - 1) : in.order[j] \notin pending_paths
  IN in.order[i]

\* Static::should_add_to_executable
ShouldAddToExecutable(library_dirs) == library_dirs # <<>>

\* The tail of autopack_path: what happens to a path that was not packed.
NotPackedBailsNever(can_skip, st, path) ==
  [st EXCEPT !.skipped = @ \cup {path}]
NotPacked(can_skip, st, path) ==
  IF ~can_skip
  THEN [st EXCEPT !.skipped = @ \cup {path}]
  ELSE Bail(st, path, "failed to autopack path")

RECURSIVE AutopackPath(_, _, _)
RECURSIVE CollectAllLibraryDirs(_, _, _, _, _)

\* try_autopack_dependency: pending_paths.remove(&canonical_path) finds the
\* entry whose key is the canonical path
TryAutopackDependency(in, st, path) ==
  LET canonical_path == CanonicalPath(path)
      removed == {p \in st.pending_paths : PendingKey(in, p) = canonical_path}
  IN IF removed # {}
     THEN AutopackPath(in, [st EXCEPT !.pending_paths = @ \ removed], path)
     ELSE st

\* collect_all_library_dirs, with every needed library found by name in the
\* one search directory and no library skipped: needed is needed_libraries,
\* found is found_libraries, dirs is resource_library_dirs
CollectAllLibraryDirs(in, st, needed, found, dirs) ==
  IF needed = <<>>
  THEN [st |-> st, library_dirs |-> dirs]
  ELSE
    LET library_name == Head(needed)
        rest == Tail(needed)
    IN IF library_name \in found
       THEN CollectAllLibraryDirs(in, st, rest, found, dirs)
       ELSE
         LET dep == TryAutopackDependency(in, st, library_name)
             contents == dep.files[library_name]
             library_dir == NamedBlob(library_name, contents)
             ingested == [dep EXCEPT !.store = @ \cup {library_dir}]
             libraries == in.files[library_name].libraries
         IN IF dep.status = "err"
            THEN [st |-> dep, library_dirs |-> <<>>]
            ELSE CollectAllLibraryDirs(in, ingested, rest \o libraries,
                                       found \cup {library_name},
                                       Append(dirs, library_dir))

\* autopack_shared_library with source_path = output_path
AutopackSharedLibrary(in, st, path) ==
  LET collected ==
        CollectAllLibraryDirs(in, st, in.files[path].libraries, {}, <<>>)
      after == collected.st
      library_dirs == collected.library_dirs
  IN IF after.status = "err" THEN [st |-> after, did_pack |-> FALSE]
     ELSE IF ~ShouldAddToExecutable(library_dirs) /\ ~in.allow_empty
     THEN [st |-> after, did_pack |-> FALSE]
     ELSE [st |-> [after EXCEPT
                     !.files[path] = PackedContent(path, library_dirs)],
           did_pack |-> TRUE]

\* autopack_dynamic_binary when no link dependency holds the interpreter
AutopackDynamicBinary(in, st, path) ==
  [st |-> Bail(st, path, "could not find interpreter"), did_pack |-> FALSE]

TryAutopackPath(in, st, path) ==
  LET kind == in.files[path].kind
  IN IF kind = "none" THEN [st |-> st, did_pack |-> FALSE]
     ELSE IF kind = "dynamic_binary" THEN AutopackDynamicBinary(in, st, path)
     ELSE AutopackSharedLibrary(in, st, path)

\* autopack_path; dispatched records the calls in order
AutopackPath(in, st, path) ==
  LET tried == TryAutopackPath(in, [st EXCEPT !.dispatched = Append(@, path)], path)
  IN IF tried.st.status = "err" THEN tried.st
     ELSE IF tried.did_pack
     THEN [tried.st EXCEPT !.autopacked = @ \cup {path}]
     ELSE NotPacked(CanSkip(in), tried.st, path)

\* One iteration of the loop of autopack.
AutopackLoopStep(in, st) ==
  LET path == PopFirst(in, st.pending_paths)
  IN AutopackPath(in, [st EXCEPT !.pending_paths = @ \ {path}], path)

\* The whole loop of autopack.
RECURSIVE AutopackLoop(_, _)
AutopackLoop(in, st) ==
  IF st.status = "err" \/ st.pending_paths = {} THEN st
  ELSE AutopackLoop(in, AutopackLoopStep(in, st))

Seeded(in) == [NoAuto EXCEPT !.pending_paths = in.matched]

Autopack(in) == AutopackLoop(in, Seeded(in))

AutoStart ==
  /\ apPhase = "start"
  /\ apIn \in AutoInputs
  /\ apRun = NoAuto

AutoFrame == UNCHANGED <<packVars, storeVars, findVars, kindVars, libVars, scriptVars, execVars, stubVars, rebaseVars, repackVars, ldVars>>

\* autopack up to the loop: the pending paths are seeded
ApSeed ==
  /\ apPhase = "start"
  /\ apPhase' = "loop"
  /\ apRun' = Seeded(apIn)
  /\ UNCHANGED apIn
  /\ AutoFrame

\* one iteration of `while let Some(..) = pending_paths.pop_first()`
ApPop ==
  /\ apPhase = "loop"
  /\ apRun.status = "running"
  /\ apRun.pending_paths # {}
  /\ apRun' = AutopackLoopStep(apIn, apRun)
  /\ UNCHANGED <<apPhase, apIn>>
  /\ AutoFrame

\* the `?` of the loop body
ApFail ==
  /\ apPhase = "loop"
  /\ apRun.status = "err"
  /\ apPhase' = "failed"
  /\ UNCHANGED <<apIn, apRun>>
  /\ AutoFrame

\* Ok(()) after the loop
ApReturn ==
  /\ apPhase = "loop"
  /\ apRun.status = "running"
  /\ apRun.pending_paths = {}
  /\ apPhase' = "done"
  /\ apRun' = [apRun EXCEPT !.status = "ok"]
  /\ UNCHANGED apIn
  /\ AutoFrame

AutoNext == ApSeed \/ ApPop \/ ApFail \/ ApReturn

AutoInit == AutoStart /\ PackIdle /\ StoreIdle /\ FindIdle /\ KindIdle /\ LibIdle /\ ScriptIdle /\ ExecIdle /\ StubIdle /\ RebaseIdle /\ RepackIdle /\ LdIdle

SpecAuto == AutoInit /\ [][AutoNext]_vars

\* What a run leaves behind: whether it succeeded and, if so, the store and
\* the content (trailer included) of every file.
AutoResult(st) ==
  IF st.status = "err"
  THEN [status |-> "err", store |-> {}, files |-> <<>>]
  ELSE [status |-> "ok", store |-> st.store, files |-> st.files]

\* C13: for every set of inputs, cyclic dependencies included, a finished
\* run leaves the same store and the same trailer on every file as the run
\* over the same inputs under any other sort order of the path names.
C13_OrderIndependent ==
  apPhase \in {"done", "failed"} =>
    \A o \in Orders :
      AutoResult(Autopack([apIn EXCEPT !.order = o])) = AutoResult(apRun)

\* The paths autopack_path has been called for.
Handled == IF apPhase = "start" THEN {} ELSE apIn.matched \ apRun.pending_paths

\* C14: an explicitly listed path that was handled without being packed has
\* made the run fail; a glob-matched path the classifier answers None for
\* is recorded as skipped and is never the path the run failed on; a path
\* whose handler fails makes the run fail for both kinds of input, and a
\* glob run fails for no other reason.
C14_ExplicitFailsGlobSkips ==
  /\ \A p \in Handled :
       /\ (CanSkip(apIn) /\ p \notin apRun.autopacked)
            => apRun.status = "err"
       /\ (~CanSkip(apIn) /\ apIn.files[p].kind = "none")
            => /\ p \in apRun.skipped
               /\ apRun.status = "err" => apRun.error[1] # p
       /\ apIn.files[p].kind = "dynamic_binary" => apRun.status = "err"
  /\ (~CanSkip(apIn) /\ apRun.status = "err")
       => /\ apIn.files[apRun.error[1]].kind = "dynamic_binary"
          /\ apRun.error[2] = "could not find interpreter"

\* An explicit run that stopped on a path the classifier answers None for,
\* with paths still pending.
C14_Witness ==
  /\ apPhase = "failed"
  /\ CanSkip(apIn)
  /\ apRun.pending_paths # {}
  /\ apRun.error[2] = "failed to autopack path"
  /\ apIn.files[apRun.error[1]].kind = "none"

\* C15: a handled shared library with nothing in its closure and
\* allow_empty false never makes the run fail, whether the input was listed
\* explicitly or matched by a glob, and its file gets no trailer; with
\* allow_empty true it gets a Static pack with empty library_dirs.
C15_EmptyClosureSkipped ==
  \A p \in Handled :
    (apIn.files[p].kind = "shared_library" /\ apIn.files[p].libraries = <<>>)
      => IF apIn.allow_empty
         THEN apRun.files[p] = PackedContent(p, <<>>)
         ELSE /\ apRun.files[p] = OrigContent(p)
              /\ apRun.status = "err" => apRun.error[1] # p

(***************************************************************************)
(* Script interpreter lookup: autopack_context, find_script_interpreter     *)
(*                                                                          *)
(* A filesystem object is <<kind, owner, slot>>: kind says what it is       *)
(* ("dir_with": a directory holding a regular file named <interpreter>,     *)
(* "dir_without": a directory without one, "file": a regular file), owner   *)
(* and slot say which link dependency it belongs to and where.              *)
(***************************************************************************)
MaxDeps == 2

\* What a runnable dependency has at bin/<interpreter>.
DepBin == {"absent", "file_exec", "file_plain", "dir"}

\* What brioche-env.d/env/PATH of a link dependency holds: no directory, or
\* one entry that is a symlink to an object or is not a symlink.
EnvPathEntry == {"absent", "dir_with", "dir_without", "file", "not_symlink"}

\* bin/ of a link dependency
LinkBin == {"absent", "dir_with", "dir_without"}

LinkDep == [env_path : EnvPathEntry, bin : LinkBin]

ScriptInputs ==
  [dependencies : SeqsUpTo(DepBin, MaxDeps),
   link_dependencies : SeqsUpTo(LinkDep, MaxDeps)]

Object(kind, owner, slot) == <<kind, owner, slot>>
IsFile(object) == object[1] = "file"
\* object.join(interpreter) is a regular file
HoldsInterpreter(object) == object[1] = "dir_with"

\* The first loop of autopack_context: the canonical targets of the PATH
\* symlinks of every link dependency.
RECURSIVE EnvPathTargets(_, _)
EnvPathTargets(link_dependencies, i) ==
  IF i > Len(link_dependencies) THEN <<>>
  ELSE LET entry == link_dependencies[i].env_path
       IN (IF entry = "absent" THEN <<>>
           ELSE <<Object(entry, i, "PATH")>>)
          \o EnvPathTargets(link_dependencies, i + 1)

\* The second loop of autopack_context: bin/ of every link dependency that
\* has one.
RECURSIVE BinDirs(_, _)
BinDirs(link_dependencies, i) ==
  IF i > Len(link_dependencies) THEN <<>>
  ELSE LET bin == link_dependencies[i].bin
       IN (IF bin = "absent" THEN <<>> ELSE <<Object(bin, i, "bin")>>)
          \o BinDirs(link_dependencies, i + 1)

\* eyre::ensure!(entry.file_type()?.is_symlink())
ContextFails(link_dependencies) ==
  \E i \in DOMAIN link_dependencies :
    link_dependencies[i].env_path = "not_symlink"

LinkDependencyPaths(link_dependencies) ==
  EnvPathTargets(link_dependencies, 1) \o BinDirs(link_dependencies, 1)

NoScript ==
  [link_dependency_paths |-> <<>>, next |-> 1, status |-> "running",
   command |-> <<>>, ingested |-> {}, error |-> ""]

\* The test find_script_interpreter applies to a link dependency path:
\* link_dependency_path.is_file(), not the joined path.
LinkPathMatches(link_dependency_path) == IsFile(link_dependency_path)

ScriptStart ==
  /\ scPhase = "start"
  /\ scIn \in ScriptInputs
  /\ scRun = NoScript

ScriptFrame ==
  UNCHANGED <<packVars, storeVars, findVars, kindVars, libVars, autoVars,
              execVars, stubVars, rebaseVars, repackVars, ldVars>>

\* autopack_context
ScContext ==
  /\ scPhase = "start"
  /\ IF ContextFails(scIn.link_dependencies)
     THEN /\ scPhase' = "failed"
          /\ scRun' = [scRun EXCEPT !.status = "err",
                                    !.error = "expected a symlink"]
     ELSE /\ scPhase' = "dependencies"
          /\ scRun' = [scRun EXCEPT !.link_dependency_paths =
                         LinkDependencyPaths(scIn.link_dependencies)]
  /\ UNCHANGED scIn
  /\ ScriptFrame

\* one iteration of `for dependency in dependencies`
ScDependency ==
  /\ scPhase = "dependencies"
  /\ scRun.next <= Len(scIn.dependencies)
  /\ IF scIn.dependencies[scRun.next] = "file_exec"
     THEN /\ scPhase' = "done"
          /\ scRun' = [scRun EXCEPT
                         !.status = "ok",
                         !.command = <<"dependency", scRun.next, "bin">>]
     ELSE /\ scPhase' = scPhase
          /\ scRun' = [scRun EXCEPT !.next = @ + 1]
  /\ UNCHANGED scIn
  /\ ScriptFrame

\* the end of the dependency loop
ScDependenciesEnd ==
  /\ scPhase = "dependencies"
  /\ scRun.next > Len(scIn.dependencies)
  /\ scPhase' = "link"
  /\ scRun' = [scRun EXCEPT !.next = 1]
  /\ UNCHANGED scIn
  /\ ScriptFrame

\* one iteration of `for link_dependency_path in &ctx.link_dependency_paths`;
\* on a match, the rest of the function: the interpreter path is the link
\* dependency path, ingested as a named blob and used as the command
ScLink ==
  /\ scPhase = "link"
  /\ scRun.next <= Len(scRun.link_dependency_paths)
  /\ LET link_dependency_path == scRun.link_dependency_paths[scRun.next]
     IN IF LinkPathMatches(link_dependency_path)
        THEN /\ scPhase' = "done"
             /\ scRun' = [scRun EXCEPT
                            !.status = "ok",
                            !.ingested = {link_dependency_path},
                            !.command = <<"resource", link_dependency_path>>]
        ELSE /\ scPhase' = scPhase
             /\ scRun' = [scRun EXCEPT !.next = @ + 1]
  /\ UNCHANGED scIn
  /\ ScriptFrame

\* interpreter_path.ok_or_else(..)?
ScLinkEnd ==
  /\ scPhase = "link"
  /\ scRun.next > Len(scRun.link_dependency_paths)
  /\ scPhase' = "failed"
  /\ scRun' = [scRun EXCEPT !.status = "err",
                            !.error = "could not find script interpreter"]
  /\ UNCHANGED scIn
  /\ ScriptFrame

ScriptNext ==
  ScContext \/ ScDependency \/ ScDependenciesEnd \/ ScLink \/ ScLinkEnd

ScriptInit ==
  ScriptStart /\ PackIdle /\ StoreIdle /\ FindIdle /\ KindIdle /\ LibIdle
    /\ AutoIdle /\ ExecIdle /\ StubIdle /\ RebaseIdle /\ RepackIdle /\ LdIdle

SpecScript == ScriptInit /\ [][ScriptNext]_vars

NoDependencyProvides ==
  \A i \in DOMAIN scIn.dependencies : scIn.dependencies[i] # "file_exec"

\* The directories of link_dependency_paths that hold a regular file
\* <interpreter>, by position.
Holders ==
  {i \in DOMAIN scRun.link_dependency_paths :
     HoldsInterpreter(scRun.link_dependency_paths[i])}

\* C16: when no runnable dependency provides an executable regular file
\* bin/<interpreter>, a finished lookup succeeded with the first directory
\* D of link_dependency_paths that holds a regular file D/<interpreter> if
\* there is one, ingesting that file and using it as the command, and
\* failed with "could not find script interpreter" only if there is none.
C16_LinkFallback ==
  (scPhase \in {"done", "failed"} /\ ~ContextFails(scIn.link_dependencies)
     /\ NoDependencyProvides)
    => IF Holders # {}
       THEN LET first == CHOOSE i \in Holders : \A j \in Holders : i <= j
                D == scRun.link_dependency_paths[first]
            IN /\ scRun.status = "ok"
               /\ scRun.ingested = {<<"file_in", D>>}
               /\ scRun.command = <<"resource", <<"file_in", D>>>>
       ELSE /\ scRun.status = "err"
            /\ scRun.error = "could not find script interpreter"

(***************************************************************************)
(* Metadata runtime: the env staging of run and EnvVarChanges               *)
(*                                                                          *)
(* An OsString is a sequence of tokens, an Option<OsString> a record with   *)
(* a `some` flag.  Two variable names are modelled: "V", which may have an  *)
(* entry in runnable.env, and "W", which has none.                          *)
(***************************************************************************)
MaxExecDeps == 2

PATH_SEPARATOR == <<":">>

None == [some |-> FALSE, value |-> <<>>]
Some(value) == [some |-> TRUE, value |-> value]

EnvNames == {"V", "W"}

\* runnable_core::TemplateComponent::Literal
Literal(value) == [type |-> "literal", value |-> value]

\* runnable_core::EnvValue; "none" is a name without an entry.  A template
\* is a list of components.
EnvValue ==
  {[type |-> t, value |-> <<>>, separator |-> <<>>] :
     t \in {"none", "clear", "inherit"}}
  \cup {[type |-> t, value |-> <<Literal(<<"v">>)>>, separator |-> <<>>] :
          t \in {"set", "fallback"}}
  \cup {[type |-> t, value |-> <<Literal(<<"v">>)>>,
          separator |-> <<",">>] :
          t \in {"prepend", "append"}}

\* Template::to_os_string on Literal components: the bytes, in order
RECURSIVE ToOsString(_)
ToOsString(template) ==
  IF template = <<>> THEN <<>>
  ELSE Head(template).value \o ToOsString(Tail(template))

\* An entry of a brioche-env.d/env/<VAR>/ directory.
ValueEntry(file_name, is_symlink, target) ==
  [file_name |-> file_name, is_symlink |-> is_symlink, target |-> target]
ValueEntries ==
  {ValueEntry(1, TRUE, "y"), ValueEntry(2, TRUE, "x"),
   ValueEntry(3, FALSE, "z")}

\* What brioche-env.d/env/<VAR> of a dependency is.
DepEnvEntry(type, entries, content) ==
  [type |-> type, entries |-> entries, content |-> content]
DepEnvAbsent == DepEnvEntry("absent", {}, <<>>)
DepEnvFile == DepEnvEntry("file", {}, <<"f">>)
DepEnvSymlink == DepEnvEntry("symlink", {}, <<"s">>)
DepEnvDirs ==
  {DepEnvEntry("dir", es, <<>>) :
     es \in {{}, {ValueEntry(2, TRUE, "x")},
             {ValueEntry(1, TRUE, "y"), ValueEntry(2, TRUE, "x")},
             ValueEntries}}

ExecDeps ==
  {d \in [EnvNames -> {DepEnvAbsent, DepEnvFile, DepEnvSymlink}
                        \cup DepEnvDirs] :
     d["W"] \in {DepEnvAbsent, DepEnvFile}}

ExecInputs ==
  {in \in [clear_env : BOOLEAN,
           env : [EnvNames -> EnvValue],
           parent : [EnvNames -> {None, Some(<<>>), Some(<<"p">>)}],
           dependencies : SeqsUpTo(ExecDeps, MaxExecDeps)] :
     /\ in.env["W"].type = "none"
     /\ in.parent["W"] # Some(<<>>)}

\* std::env::var_os
VarOs(in, env_var) == in.parent[env_var]

\* EnvVarChanges: `envs` maps a name to [held |-> is the name a key of the
\* HashMap, value |-> its Option<OsString>].
NotHeld == [held |-> FALSE, value |-> None]
Held(value) == [held |-> TRUE, value |-> value]

EnvVarChangesNew == [n \in EnvNames |-> NotHeld]

\* get_mut: the map after entry().or_insert_with_key()
GetMut(in, envs, env_var) ==
  IF envs[env_var].held THEN envs
  ELSE [envs EXCEPT ![env_var] =
          Held(IF in.clear_env THEN None ELSE VarOs(in, env_var))]

EnvInherit(in, envs, env_var) ==
  [envs EXCEPT ![env_var] = Held(VarOs(in, env_var))]

EnvSet(envs, env_var, value) == [envs EXCEPT ![env_var] = Held(Some(value))]

EnvClearKeeps(envs, env_var) == envs
EnvClear(envs, env_var) == [envs EXCEPT ![env_var] = Held(None)]

EnvPrependAfter(in, envs, env_var, value, separator) ==
  LET got == GetMut(in, envs, env_var)
      current_value == got[env_var].value
  IN [got EXCEPT ![env_var] =
        Held(Some(IF current_value.some
                  THEN current_value.value \o separator \o value
                  ELSE value))]
EnvPrepend(in, envs, env_var, value, separator) ==
  LET got == GetMut(in, envs, env_var)
      current_value == got[env_var].value
  IN [got EXCEPT ![env_var] =
        Held(Some(IF current_value.some
                  THEN value \o separator \o current_value.value
                  ELSE value))]

EnvAppend(in, envs, env_var, value, separator) ==
  LET got == GetMut(in, envs, env_var)
      current_value == got[env_var].value
  IN [got EXCEPT ![env_var] =
        Held(Some(IF current_value.some
                  THEN current_value.value \o separator \o value
                  ELSE value))]

\* The value set when the current value is None (the file and symlink
\* entries of a dependency, and Fallback).
EnvOrInsert(in, envs, env_var, value) ==
  LET got == GetMut(in, envs, env_var)
  IN IF got[env_var].value.some THEN got
     ELSE [got EXCEPT ![env_var] = Held(Some(value))]

\* apply_to_command, and the environment exec hands to the child
ApplyToCommand(in, envs) ==
  [n \in EnvNames |->
     IF envs[n].held THEN envs[n].value
     ELSE IF in.clear_env THEN None
     ELSE VarOs(in, n)]

\* The first loop of run over runnable.env, for one entry.
SeedEntry(in, envs, env_var) ==
  LET env_value == in.env[env_var]
  IN CASE env_value.type \in {"none", "set"} -> envs
       [] env_value.type = "clear" -> EnvClear(envs, env_var)
       [] env_value.type = "fallback" ->
            LET inherited == EnvInherit(in, envs, env_var)
            IN IF inherited[env_var].value.some THEN inherited
               ELSE EnvSet(inherited, env_var, ToOsString(env_value.value))
       [] OTHER -> EnvInherit(in, envs, env_var)

\* The last loop of run over runnable.env, for one entry.
ExplicitEntry(in, envs, env_var) ==
  LET env_value == in.env[env_var]
  IN CASE env_value.type = "set" ->
            EnvSet(envs, env_var, ToOsString(env_value.value))
       [] env_value.type = "prepend" ->
            EnvPrepend(in, envs, env_var, ToOsString(env_value.value),
                       env_value.separator)
       [] env_value.type = "append" ->
            EnvAppend(in, envs, env_var, ToOsString(env_value.value),
                      env_value.separator)
       [] OTHER -> envs

RECURSIVE OverNames(_, _, _, _)
OverNames(Op(_, _, _), in, envs, names) ==
  IF names = <<>> THEN envs
  ELSE OverNames(Op, in, Op(in, envs, Head(names)), Tail(names))

\* The orders in which a directory's entries can be listed (read_dir).
Listings(entries) ==
  {l \in [1..Cardinality(entries) -> entries] :
     \A i, j \in DOMAIN l : i # j => l[i] # l[j]}

\* Vec::sort_by_key(DirEntry::file_name): insertion into a sorted list
RECURSIVE InsertByFileName(_, _)
InsertByFileName(entry, sorted) ==
  IF sorted = <<>> THEN <<entry>>
  ELSE IF entry.file_name < Head(sorted).file_name THEN <<entry>> \o sorted
  ELSE <<Head(sorted)>> \o InsertByFileName(entry, Tail(sorted))

RECURSIVE SortByFileNameFrom(_, _)
SortByFileNameFrom(listing, sorted) ==
  IF listing = <<>> THEN sorted
  ELSE SortByFileNameFrom(Tail(listing),
                          InsertByFileName(Head(listing), sorted))

SortAsListed(listing) == listing
SortByFileName(listing) == SortByFileNameFrom(listing, <<>>)

\* std::fs::canonicalize of a symlink entry
Canonicalize(entry) == <<entry.target>>

\* The loop building env_value_append; "invalid" at a non-symlink entry.
RECURSIVE EnvValueAppend(_, _)
EnvValueAppend(env_value_entries, i) ==
  IF i > Len(env_value_entries) THEN [ok |-> TRUE, value |-> <<>>]
  ELSE IF ~env_value_entries[i].is_symlink
  THEN [ok |-> FALSE, value |-> <<>>]
  ELSE LET rest == EnvValueAppend(env_value_entries, i + 1)
       IN [ok |-> rest.ok,
           value |-> (IF i # 1 THEN PATH_SEPARATOR ELSE <<>>)
                       \o Canonicalize(env_value_entries[i]) \o rest.value]

NoExec ==
  [envs |-> EnvVarChangesNew, next |-> 1, staged |-> EnvVarChangesNew,
   child |-> [n \in EnvNames |-> None], error |-> ""]

ExecStart ==
  /\ exPhase = "start"
  /\ exIn \in ExecInputs
  /\ exRun = NoExec

ExecFrame ==
  UNCHANGED <<packVars, storeVars, findVars, kindVars, libVars, autoVars,
              scriptVars, stubVars, rebaseVars, repackVars, ldVars>>

\* EnvVarChanges::new and the first loop over runnable.env
ExSeed ==
  /\ exPhase = "start"
  /\ exPhase' = "dependencies"
  /\ \E names \in Listings(EnvNames) :
       exRun' = [exRun EXCEPT
                   !.envs = OverNames(SeedEntry, exIn, EnvVarChangesNew, names)]
  /\ UNCHANGED exIn
  /\ ExecFrame

\* One entry of brioche-env.d/env of a dependency, in the listing order
\* read_dir gave for a directory entry.
DependencyEntry(in, envs, entry, env_var, listing) ==
  CASE entry.type = "absent" -> [ok |-> TRUE, envs |-> envs]
    [] entry.type = "dir" ->
         LET appended == EnvValueAppend(SortByFileName(listing), 1)
         IN IF appended.ok
            THEN [ok |-> TRUE,
                  envs |-> EnvAppend(in, envs, env_var, appended.value,
                                     PATH_SEPARATOR)]
            ELSE [ok |-> FALSE, envs |-> envs]
    [] OTHER ->
         [ok |-> TRUE, envs |-> EnvOrInsert(in, envs, env_var, entry.content)]

\* one iteration of `for dependency in runnable.dependencies`
ExDependency ==
  /\ exPhase = "dependencies"
  /\ exRun.next <= Len(exIn.dependencies)
  /\ LET dependency == exIn.dependencies[exRun.next]
     IN \E first \in EnvNames :
        \E listing1 \in Listings(dependency[first].entries) :
          LET second == CHOOSE n \in EnvNames : n # first
              one == DependencyEntry(exIn, exRun.envs, dependency[first],
                                     first, listing1)
          IN \E listing2 \in Listings(dependency[second].entries) :
               LET two == DependencyEntry(exIn, one.envs, dependency[second],
                                          second, listing2)
               IN IF one.ok /\ two.ok
                  THEN /\ exPhase' = exPhase
                       /\ exRun' = [exRun EXCEPT !.envs = two.envs,
                                                 !.next = @ + 1]
                  ELSE /\ exPhase' = "failed"
                       /\ exRun' = [exRun EXCEPT
                                      !.envs = one.envs,
                                      !.error = "InvalidDependencyEnvVar"]
  /\ UNCHANGED exIn
  /\ ExecFrame

\* the last loop over runnable.env, apply_to_command and exec
ExExplicit ==
  /\ exPhase = "dependencies"
  /\ exRun.next > Len(exIn.dependencies)
  /\ exPhase' = "exec"
  /\ \E names \in Listings(EnvNames) :
       LET envs == OverNames(ExplicitEntry, exIn, exRun.envs, names)
       IN exRun' = [exRun EXCEPT !.staged = exRun.envs,
                                 !.envs = envs,
                                 !.child = ApplyToCommand(exIn, envs)]
  /\ UNCHANGED exIn
  /\ ExecFrame

ExecNext == ExSeed \/ ExDependency \/ ExExplicit

ExecInit ==
  ExecStart /\ PackIdle /\ StoreIdle /\ FindIdle /\ KindIdle /\ LibIdle
    /\ AutoIdle /\ ScriptIdle /\ StubIdle /\ RebaseIdle /\ RepackIdle /\ LdIdle

SpecExec == ExecInit /\ [][ExecNext]_vars

\* The value a name has once inheritance and every dependency contribution
\* have been applied, before the explicit entries are.
StagedValue(n) ==
  IF exRun.staged[n].held THEN exRun.staged[n].value
  ELSE IF exIn.clear_env THEN None
  ELSE exIn.parent[n]

\* Some dependency has an entry for the name under brioche-env.d/env/.
Contributed(n) ==
  \E i \in DOMAIN exIn.dependencies : exIn.dependencies[i][n].type # "absent"

\* C17: in the child, with X the staged value of a name, a Set{v} name is
\* exactly eval(v), a Prepend{v, sep} name is eval(v) sep X and an
\* Append{v, sep} name is X sep eval(v) (eval(v) alone when X is absent);
\* with clear_env, a name with no entry in runnable.env and no dependency
\* contribution is absent.
C17_ExplicitAppliedLast ==
  exPhase = "exec" =>
    \A n \in EnvNames :
      LET e == exIn.env[n]
          X == StagedValue(n)
          v == ToOsString(e.value)
      IN /\ e.type = "set" => exRun.child[n] = Some(v)
         /\ e.type = "prepend" =>
              exRun.child[n] =
                Some(IF X.some THEN v \o e.separator \o X.value ELSE v)
         /\ e.type = "append" =>
              exRun.child[n] =
                Some(IF X.some THEN X.value \o e.separator \o v ELSE v)
         /\ (exIn.clear_env /\ e.type = "none" /\ ~Contributed(n))
              => exRun.child[n] = None

\* A Prepend name that was inherited and got a directory contribution from
\* a dependency, in a child that has been exec'd.
C17_Witness ==
  /\ exPhase = "exec"
  /\ exIn.env["V"].type = "prepend"
  /\ exIn.parent["V"] = Some(<<"p">>)
  /\ \E i \in DOMAIN exIn.dependencies :
       /\ exIn.dependencies[i]["V"].type = "dir"
       /\ Cardinality(exIn.dependencies[i]["V"].entries) = 2
  /\ exRun.child["V"] = Some(<<"v", ",", "p", ":", "y", ":", "x">>)

\* C18: for a Fallback{v} name, the value seeded before any dependency is
\* read is eval(v) when the stub's environment has the name unset or set to
\* the empty string, and the inherited value when it is set to a non-empty
\* value; with no dependency contribution the child receives that value.
C18_FallbackUnsetOrEmpty ==
  \A n \in EnvNames :
    exIn.env[n].type = "fallback" =>
      LET inherited == exIn.parent[n]
          expected ==
            IF ~inherited.some \/ inherited.value = <<>>
            THEN Some(ToOsString(exIn.env[n].value))
            ELSE inherited
      IN /\ (exPhase = "dependencies" /\ exRun.next = 1)
              => exRun.envs[n] = Held(expected)
         /\ (exPhase = "exec" /\ ~Contributed(n))
              => exRun.child[n] = expected

\* C19: a name whose runnable.env entry is Clear is absent from the child,
\* for every inherited environment, either clear_env and whatever the
\* dependencies hold for the name.
C19_ClearUnset ==
  exPhase = "exec" =>
    \A n \in EnvNames : exIn.env[n].type = "clear" => exRun.child[n] = None

RECURSIVE Tokens(_)
Tokens(value) ==
  IF value = <<>> THEN {} ELSE {Head(value)} \cup Tokens(Tail(value))

\* C19 as amended: a Clear name is never inherited; it is absent from the
\* child exactly when no dependency has an entry for it, and otherwise the
\* child receives the dependencies' contribution without the inherited
\* value.
C19_ClearNotInherited ==
  exPhase = "exec" =>
    \A n \in EnvNames :
      exIn.env[n].type = "clear" =>
        /\ exRun.child[n].some <=> Contributed(n)
        /\ "p" \notin Tokens(exRun.child[n].value)

\* A Clear name that is set in the stub's environment and gets a directory
\* contribution from a dependency.
C19_Witness ==
  /\ exPhase = "exec"
  /\ exIn.env["V"].type = "clear"
  /\ exIn.parent["V"] = Some(<<"p">>)
  /\ ~exIn.clear_env
  /\ exRun.child["V"] = Some(<<"y", ":", "x">>)

\* The canonical targets of a directory's entries joined by ':', taken in
\* ascending order of file name starting from file name k.
RECURSIVE JoinedAscending(_, _)
JoinedAscending(entries, k) ==
  IF \A e \in entries : e.file_name < k THEN <<>>
  ELSE LET here == {e \in entries : e.file_name = k}
           rest == JoinedAscending(entries, k + 1)
       IN IF here = {} THEN rest
          ELSE LET e == CHOOSE e \in here : TRUE
               IN <<e.target>> \o (IF rest = <<>> THEN <<>> ELSE <<":">> \o rest)

\* What the dependencies from position i on add to an accumulated value.
RECURSIVE WithContributions(_, _, _)
WithContributions(acc, n, i) ==
  IF i > Len(exIn.dependencies) THEN acc
  ELSE LET entry == exIn.dependencies[i][n]
           joined == JoinedAscending(entry.entries, 1)
       IN IF entry.type # "dir" THEN WithContributions(acc, n, i + 1)
          ELSE WithContributions(
                 Some(IF acc.some THEN acc.value \o <<":">> \o joined
                      ELSE joined), n, i + 1)

HasPlainEntry(dependency) ==
  \E n \in EnvNames : \E e \in dependency[n].entries : ~e.is_symlink

\* C20: for a name with no entry in runnable.env whose dependency entries
\* are directories of symlinks, the child receives the inherited value (if
\* any), then for each dependency in order ':' and the dependency's
\* canonical targets joined by ':' in ascending file-name order, whatever
\* order the directories were listed in; a dependency with a non-symlink
\* entry in such a directory is never passed and makes the run fail with
\* InvalidDependencyEnvVar.
C20_DependencyContributions ==
  /\ exPhase = "exec" =>
       \A n \in EnvNames :
         (/\ exIn.env[n].type = "none"
          /\ \A i \in DOMAIN exIn.dependencies :
               exIn.dependencies[i][n].type \in {"absent", "dir"})
           => exRun.child[n] =
                WithContributions(
                  IF exIn.clear_env THEN None ELSE exIn.parent[n], n, 1)
  /\ exPhase \in {"dependencies", "exec"} =>
       \A i \in 1..(exRun.next - 1) : ~HasPlainEntry(exIn.dependencies[i])
  /\ exPhase = "failed" =>
       /\ exRun.error = "InvalidDependencyEnvVar"
       /\ HasPlainEntry(exIn.dependencies[exRun.next])

\* An inherited name with no runnable.env entry and two dependencies, each
\* with a two-entry directory for it, in an exec'd child.
C20_Witness ==
  /\ exPhase = "exec"
  /\ exIn.env["V"].type = "none"
  /\ ~exIn.clear_env
  /\ exIn.parent["V"] = Some(<<"p">>)
  /\ Len(exIn.dependencies) = 2
  /\ \A i \in {1, 2} : Cardinality(exIn.dependencies[i]["V"].entries) = 2
  /\ exRun.child["V"] = Some(<<"p", ":", "y", ":", "x", ":", "y", ":", "x">>)

(***************************************************************************)
(* Runtime stubs: main and run of brioche-packed-plain-exec, entrypoint and *)
(* run of brioche-packed-userland-exec                                      *)
(*                                                                          *)
(* A word (a path, an argument) is a sequence of string tokens; an          *)
(* argument vector is a sequence of words.  The resource dirs hold the      *)
(* subpaths named in stIn.present.                                          *)
(***************************************************************************)
MaxArgv == 3
MaxRunnableArgs == 3

BRIOCHE_PACKED_ERROR == 121

\* The exit code of a Rust process whose main thread panicked and unwound.
PANIC_EXIT == 101

FORMAT == "application/vnd.brioche.runnable-v0.1.0+json"

PROGRAM_PARENT_PATH == <<"/", "stub">>
RESOURCES == <<"/", "res">>

ResourceNames == {"ld", "prog", "lib", "lib2"}

\* Path::join
Join(base, path) ==
  IF path # <<>> /\ Head(path) = "/" THEN path ELSE base \o <<"/">> \o path

\* find_in_resource_dirs for a subpath that is one name
FindResource(in, subpath) ==
  IF subpath \in in.present THEN Some(Join(RESOURCES, <<subpath>>)) ELSE None

\* Path::canonicalize of a path found in the resource dirs
CanonicalizeProgram(path) == <<"canonical">> \o path

LdLinuxPacks ==
  [type : {"ld_linux"}, program : {"prog"}, interpreter : {"ld"},
   library_dirs : {<<>>, <<"lib">>, <<"lib2", "lib">>},
   runtime_library_dirs : {<<>>, <<<<"rt">>>>, <<<<"/", "abs">>, <<"rt">>>>},
   format : {""}, args : {<<>>}]

\* runnable_core::ArgValue, with one-component templates
RunnableArg ==
  {[type |-> "arg", template |-> "literal"],
   [type |-> "arg", template |-> "resource"],
   [type |-> "rest", template |-> ""]}

MetadataPacks ==
  [type : {"metadata"}, program : {"prog"}, interpreter : {""},
   library_dirs : {<<>>}, runtime_library_dirs : {<<>>},
   format : {FORMAT}, args : SeqsUpTo(RunnableArg, MaxRunnableArgs)]
  \cup
  [type : {"metadata"}, program : {"prog"}, interpreter : {""},
   library_dirs : {<<>>}, runtime_library_dirs : {<<>>},
   format : {"unknown"}, args : {<<>>}]

StaticPack ==
  [type |-> "static", program |-> "", interpreter |-> "",
   library_dirs |-> <<>>, runtime_library_dirs |-> <<>>, format |-> "",
   args |-> <<>>]

ArgvWords == <<"argv0", "x", "y", "z", "w">>
StubArgv == {[i \in 1..n |-> <<ArgvWords[i]>>] : n \in 0..MaxArgv}

StubInputs ==
  {in \in [stub : {"plain", "userland"},
           opening : {"ok", "NotFound", "MarkerNotFound", "MalformedMarker"},
           pack : LdLinuxPacks \cup MetadataPacks \cup {StaticPack},
           argv : StubArgv,
           ld_library_path : {None, Some(<<>>), Some(<<"env">>)},
           present : SUBSET ResourceNames,
           exec_fails : BOOLEAN] :
     /\ in.opening # "ok" =>
          in.pack = StaticPack /\ in.present = {} /\ ~in.exec_fails
     /\ in.pack.type # "ld_linux" =>
          in.ld_library_path = None /\ in.present \subseteq {"prog"}
     /\ in.pack.type = "static" => ~in.exec_fails /\ in.argv = <<>>}

NoCommand == [program |-> <<>>, argv |-> <<>>]
Built(program, argv) ==
  [result |-> "command", error |-> "",
   command |-> [program |-> program, argv |-> argv]]
Failed(error) == [result |-> "err", error |-> error, command |-> NoCommand]
PanickedAsError == Failed("unimplemented")
Panicked == [result |-> "panic", error |-> "unimplemented", command |-> NoCommand]

\* The two loops building resolved_library_dirs; <<>> inside a failed
\* result when a library dir is not in the resource dirs.
RECURSIVE ResolveLibraryDirs(_, _)
ResolveLibraryDirs(in, library_dirs) ==
  IF library_dirs = <<>> THEN [ok |-> TRUE, dirs |-> <<>>]
  ELSE LET found == FindResource(in, Head(library_dirs))
           rest == ResolveLibraryDirs(in, Tail(library_dirs))
       IN IF ~found.some THEN [ok |-> FALSE, dirs |-> <<>>]
          ELSE [ok |-> rest.ok, dirs |-> <<found.value>> \o rest.dirs]

RuntimeLibraryDirs(runtime_library_dirs) ==
  [i \in DOMAIN runtime_library_dirs |->
     Join(PROGRAM_PARENT_PATH, runtime_library_dirs[i])]

\* ld_library_path: the dirs joined by ':'
RECURSIVE JoinDirs(_)
JoinDirs(dirs) ==
  IF dirs = <<>> THEN <<>>
  ELSE IF Len(dirs) = 1 THEN Head(dirs)
  ELSE Head(dirs) \o PATH_SEPARATOR \o JoinDirs(Tail(dirs))

\* The --library-path arguments (none when there is no library dir).
LibraryPathIgnoringEnv(in, resolved_library_dirs) ==
  IF resolved_library_dirs = <<>> THEN <<>>
  ELSE << <<"--library-path">>, JoinDirs(resolved_library_dirs) >>
LibraryPathArgs(in, resolved_library_dirs) ==
  IF resolved_library_dirs = <<>> THEN <<>>
  ELSE LET joined == JoinDirs(resolved_library_dirs)
           env_library_path == in.ld_library_path
       IN << <<"--library-path">>,
             IF env_library_path.some /\ env_library_path.value # <<>>
             THEN joined \o PATH_SEPARATOR \o env_library_path.value
             ELSE joined >>

\* The --argv0 arguments and the remaining arguments.
Argv0Args(argv) ==
  IF argv = <<>> THEN <<>> ELSE << <<"--argv0">>, Head(argv) >>
RestArgs(argv) == IF argv = <<>> THEN <<>> ELSE Tail(argv)

\* The LdLinux arm of run of the plain stub: the arguments given to
\* Command, with the command's own argv[0] in front.
PlainLdLinux(in) ==
  LET pack == in.pack
      interpreter == FindResource(in, pack.interpreter)
      libs == ResolveLibraryDirs(in, pack.library_dirs)
      program == FindResource(in, pack.program)
  IN IF ~interpreter.some THEN Failed("ResourceNotFound")
     ELSE IF ~libs.ok THEN Failed("ResourceNotFound")
     ELSE IF ~program.some THEN Failed("ResourceNotFound")
     ELSE Built(interpreter.value,
                <<interpreter.value>>
                  \o LibraryPathArgs(in,
                       RuntimeLibraryDirs(pack.runtime_library_dirs)
                         \o libs.dirs)
                  \o Argv0Args(in.argv)
                  \o <<CanonicalizeProgram(program.value)>>
                  \o RestArgs(in.argv))

\* The userland stub building its argument vector as Command does, without
\* the explicit argv[0].
UserlandLdLinuxNoArg0(in) ==
  LET built == PlainLdLinux(in)
  IN IF built.result # "command" THEN built
     ELSE Built(built.command.program, Tail(built.command.argv))

\* The LdLinux arm of run of the userland stub: the arguments given to
\* userland_execve, the first being the interpreter as argv[0].
UserlandLdLinux(in) ==
  LET pack == in.pack
      interpreter == FindResource(in, pack.interpreter)
      program == FindResource(in, pack.program)
      libs == ResolveLibraryDirs(in, pack.library_dirs)
  IN IF ~interpreter.some THEN Failed("ResourceNotFound")
     ELSE IF ~program.some THEN Failed("ResourceNotFound")
     ELSE IF ~libs.ok THEN Failed("ResourceNotFound")
     ELSE Built(interpreter.value,
                <<interpreter.value>>
                  \o LibraryPathArgs(in,
                       RuntimeLibraryDirs(pack.runtime_library_dirs)
                         \o libs.dirs)
                  \o Argv0Args(in.argv)
                  \o <<CanonicalizeProgram(program.value)>>
                  \o RestArgs(in.argv))

\* Template::to_os_string of a one-component template: a Literal, or a
\* Resource naming the program.
EvalTemplate(in, template) ==
  IF template = "literal" THEN Some(<<"lit">>)
  ELSE FindResource(in, "prog")

\* original_args.take()
TakeKeeps(original_args) == [taken |-> original_args, left |-> original_args]
Take(original_args) == [taken |-> original_args, left |-> None]

\* The loop over runnable.args: `original_args` is the Option holding
\* argv[1..].
RECURSIVE RunnableArgs(_, _, _, _)
RunnableArgs(in, args, original_args, built) ==
  IF args = <<>> THEN [ok |-> TRUE, error |-> "", args |-> built]
  ELSE LET arg == Head(args)
       IN IF arg.type = "arg"
          THEN LET value == EvalTemplate(in, arg.template)
               IN IF ~value.some
                  THEN [ok |-> FALSE, error |-> "RunnableTemplateError",
                        args |-> <<>>]
                  ELSE RunnableArgs(in, Tail(args), original_args,
                                    Append(built, value.value))
          ELSE LET took == Take(original_args)
               IN IF ~took.taken.some
                  THEN [ok |-> FALSE, error |-> "RepeatedArgs",
                        args |-> <<>>]
                  ELSE RunnableArgs(in, Tail(args), took.left,
                                    built \o took.taken.value)

\* The Metadata arm of run of the plain stub, up to the env staging.
PlainMetadata(in) ==
  IF in.pack.format # FORMAT THEN Panicked
  ELSE LET program == <<"command">>
           args == RunnableArgs(in, in.pack.args, Some(RestArgs(in.argv)),
                                <<>>)
       IN IF ~args.ok THEN Failed(args.error)
          ELSE Built(program, <<program>> \o args.args)

\* The match on extracted.pack of either stub.
RunPack(in) ==
  IF in.stub = "plain"
  THEN CASE in.pack.type = "ld_linux" -> PlainLdLinux(in)
         [] in.pack.type = "static" -> Panicked
         [] OTHER -> PlainMetadata(in)
  ELSE CASE in.pack.type = "ld_linux" -> UserlandLdLinux(in)
         [] OTHER -> Panicked

\* How the process ended, if it did.
NotExited == <<"running", 0>>
Exited(code) == <<"exit", code>>
Aborted == <<"abort", 0>>

NoStub ==
  [result |-> "running", error |-> "", command |-> NoCommand,
   exit |-> NotExited, env |-> None]

StubStart ==
  /\ stPhase = "start"
  /\ stIn \in StubInputs
  /\ stOut = NoStub

StubFrame == UNCHANGED <<packVars, storeVars, findVars, kindVars, libVars, autoVars, scriptVars, execVars, rebaseVars, repackVars, ldVars>>

\* run up to the match: current_exe, find_resource_dirs, extract_pack
StOpen ==
  /\ stPhase = "start"
  /\ IF stIn.opening = "ok"
     THEN /\ stPhase' = "extracted"
          /\ stOut' = stOut
     ELSE /\ stPhase' = "returned"
          /\ stOut' = [stOut EXCEPT !.result = "err",
                                    !.error = stIn.opening]
  /\ UNCHANGED stIn
  /\ StubFrame

\* the arm of the match, up to the exec call
StRunPack ==
  /\ stPhase = "extracted"
  /\ LET ran == RunPack(stIn)
     IN /\ stOut' = [stOut EXCEPT !.result = ran.result,
                                  !.error = ran.error,
                                  !.command = ran.command]
        /\ stPhase' = CASE ran.result = "command" -> "exec"
                        [] ran.result = "err" -> "returned"
                        [] OTHER -> "panicked"
  /\ UNCHANGED stIn
  /\ StubFrame

\* Command::exec / userland_execve::exec_with_options: control passes to
\* the command with the stub's environment, or the call fails.  A failed
\* exec returns an io error in the plain stub; what the userland stub does
\* then is decided by userland_execve.
StExec ==
  /\ stPhase = "exec"
  /\ IF ~stIn.exec_fails
     THEN /\ stPhase' = "transferred"
          /\ stOut' = [stOut EXCEPT !.result = "transferred",
                                    !.env = stIn.ld_library_path]
     ELSE IF stIn.stub = "plain"
     THEN /\ stPhase' = "returned"
          /\ stOut' = [stOut EXCEPT !.result = "err", !.error = "IoError"]
     ELSE /\ stPhase' = "exited"
          /\ \E outcome \in {Exited(BRIOCHE_PACKED_ERROR), Exited(PANIC_EXIT),
                              Aborted} :
               stOut' = [stOut EXCEPT !.result = "exec_failed",
                                      !.exit = outcome]
  /\ UNCHANGED stIn
  /\ StubFrame

\* main / entrypoint: Err(err) => BRIOCHE_PACKED_ERROR
StExit ==
  /\ stPhase = "returned"
  /\ stPhase' = "exited"
  /\ stOut' = [stOut EXCEPT !.exit = Exited(BRIOCHE_PACKED_ERROR)]
  /\ UNCHANGED stIn
  /\ StubFrame

\* unimplemented!(): the panic unwinds out of main (exit code 101) or
\* aborts the process, as the build decides
StPanic ==
  /\ stPhase = "panicked"
  /\ stPhase' = "exited"
  /\ \E outcome \in {Exited(PANIC_EXIT), Aborted} :
       stOut' = [stOut EXCEPT !.exit = outcome]
  /\ UNCHANGED stIn
  /\ StubFrame

StubNext == StOpen \/ StRunPack \/ StExec \/ StExit \/ StPanic

StubInit == StubStart /\ PackIdle /\ StoreIdle /\ FindIdle /\ KindIdle /\ LibIdle /\ AutoIdle /\ ScriptIdle /\ ExecIdle /\ RebaseIdle /\ RepackIdle /\ LdIdle

SpecStub == StubInit /\ [][StubNext]_vars

\* The number of Rest markers of a runnable's args.
RestCount(args) == Cardinality({i \in DOMAIN args : args[i].type = "rest"})

\* Every Arg template among the first n args evaluates.
ArgsEvaluate(in, args, n) ==
  \A i \in 1..n : args[i].type = "arg" => EvalTemplate(in, args[i].template).some

\* The index of the second Rest marker.
SecondRest(args) ==
  CHOOSE i \in DOMAIN args :
    /\ args[i].type = "rest"
    /\ Cardinality({j \in 1..i : args[j].type = "rest"}) = 2

\* The evaluated Arg values in order, with rest at each Rest marker.
RECURSIVE Spliced(_, _, _)
Spliced(in, args, rest) ==
  IF args = <<>> THEN <<>>
  ELSE (IF Head(args).type = "rest" THEN rest
        ELSE <<EvalTemplate(in, Head(args).template).value>>)
       \o Spliced(in, Tail(args), rest)

PlainMetadataRan ==
  /\ stPhase \in {"exec", "transferred", "returned", "exited"}
  /\ stIn.stub = "plain"
  /\ stIn.opening = "ok"
  /\ stIn.pack.type = "metadata"
  /\ stIn.pack.format = FORMAT

Unrunnable(in) ==
  \/ in.pack.type = "static"
  \/ in.pack.type = "metadata" /\ (in.stub = "userland" \/ in.pack.format # FORMAT)

\* The process ended without control having been transferred.
EndedWithoutTransfer == stPhase = "exited"

\* C22 as stated: every failure of a stub before control is transferred,
\* a pack the stub cannot run included, ends the process with exit code
\* 121.
C22_EveryFailureExits121 ==
  EndedWithoutTransfer /\ stOut.result # "exec_failed" =>
    stOut.exit = Exited(BRIOCHE_PACKED_ERROR)

\* C22, amended: every error returned by run (no resource dir, missing or
\* malformed trailer, unresolvable interpreter, program or library
\* resource, a failed exec of the plain stub) ends the process with exit
\* code 121; a pack the stub cannot run panics instead, and the process
\* then never exits with code 121.
C22_ReturnedErrorsExit121 ==
  EndedWithoutTransfer =>
    /\ stOut.result = "err" => stOut.exit = Exited(BRIOCHE_PACKED_ERROR)
    /\ (stIn.opening # "ok" \/ (~Unrunnable(stIn) /\ stOut.result # "exec_failed")) =>
         stOut.result = "err"
    /\ (stIn.opening = "ok" /\ Unrunnable(stIn)) =>
         stOut.exit \in {Exited(PANIC_EXIT), Aborted}

C22_Witness ==
  /\ EndedWithoutTransfer
  /\ stIn.stub = "plain"
  /\ stIn.opening = "ok"
  /\ stIn.pack.type = "static"
  /\ stOut.exit = Exited(PANIC_EXIT)

LdLinuxRan(stub) ==
  /\ stPhase \in {"exec", "transferred", "returned", "exited"}
  /\ stIn.stub = stub
  /\ stIn.opening = "ok"
  /\ stIn.pack.type = "ld_linux"

\* The interpreter, every library dir and the program are in the resource
\* dirs.
AllResolve(in) ==
  /\ in.pack.interpreter \in in.present
  /\ in.pack.program \in in.present
  /\ \A i \in DOMAIN in.pack.library_dirs : in.pack.library_dirs[i] \in in.present

\* The words L is the ':'-join of: the runtime library dirs under the
\* stub's directory, the library dirs in the resource dirs, and
\* LD_LIBRARY_PATH when it is set and non-empty.
LibraryPathWords(in) ==
  [i \in DOMAIN in.pack.runtime_library_dirs |->
     Join(PROGRAM_PARENT_PATH, in.pack.runtime_library_dirs[i])]
  \o [i \in DOMAIN in.pack.library_dirs |->
        Join(RESOURCES, <<in.pack.library_dirs[i]>>)]
  \o (IF in.ld_library_path.some /\ in.ld_library_path.value # <<>>
      THEN <<in.ld_library_path.value>> ELSE <<>>)

\* The argument vector after argv[0] that C23 describes.
LdLinuxArguments(in) ==
  (IF in.pack.runtime_library_dirs \o in.pack.library_dirs # <<>>
   THEN << <<"--library-path">>, JoinDirs(LibraryPathWords(in)) >>
   ELSE <<>>)
  \o (IF Len(in.argv) >= 1 THEN << <<"--argv0">>, in.argv[1] >> ELSE <<>>)
  \o << CanonicalizeProgram(Join(RESOURCES, <<in.pack.program>>)) >>
  \o [i \in 1..(Len(in.argv) - 1) |-> in.argv[i + 1]]

\* C23: for an LdLinux pack the plain stub execs the resolved interpreter
\* with --library-path L exactly when there is a library dir (L the
\* ':'-join of the runtime library dirs under the stub's directory, the
\* resolved library dirs and a set, non-empty LD_LIBRARY_PATH), then
\* --argv0 argv[0] if there is an argv[0], then the canonical program
\* path, then argv[1..]; it reaches exec only if the interpreter, every
\* library dir and the program resolved.
C23_PlainLdLinuxArguments ==
  LdLinuxRan("plain") =>
    IF AllResolve(stIn)
    THEN /\ stOut.command.program = Join(RESOURCES, <<stIn.pack.interpreter>>)
         /\ stOut.command.argv = <<stOut.command.program>> \o LdLinuxArguments(stIn)
         /\ stOut.error \in {"", "IoError"}
    ELSE /\ stPhase \in {"returned", "exited"}
         /\ stOut.command = NoCommand
         /\ stOut.error = "ResourceNotFound"

C23_Witness ==
  /\ LdLinuxRan("plain")
  /\ stPhase = "transferred"
  /\ Len(stIn.pack.library_dirs) = 2
  /\ Len(stIn.pack.runtime_library_dirs) = 2
  /\ stIn.ld_library_path = Some(<<"env">>)
  /\ Len(stIn.argv) = 3
  /\ Len(stOut.command.argv) = 8

\* What the plain stub does with the input of the run.
PlainRun == PlainLdLinux([stIn EXCEPT !.stub = "plain"])

MaxComponents == 2
MaxRebaseDeps == 1

ROOT == "/"
PARENT_DIR == ".."
CUR_DIR == "."

IsAbsolute(path) == path # <<>> /\ Head(path) = ROOT

\* Path::join on components
JoinComponents(base, path) == IF IsAbsolute(path) THEN path ELSE base \o path

\* Path::parent
ParentOf(path) ==
  IF path = <<>> \/ path = <<ROOT>> THEN None
  ELSE Some(SubSeq(path, 1, Len(path) - 1))

\* The loop of pathdiff::diff_paths over the components left of path (ita)
\* and of base (itb).
RECURSIVE DiffComponents(_, _, _)
DiffComponents(ita, itb, comps) ==
  CASE ita = <<>> /\ itb = <<>> -> Some(comps)
    [] ita # <<>> /\ itb = <<>> -> Some(comps \o ita)
    [] ita = <<>> /\ itb # <<>> ->
         DiffComponents(<<>>, Tail(itb), Append(comps, PARENT_DIR))
    [] OTHER ->
         IF comps = <<>> /\ Head(ita) = Head(itb)
         THEN DiffComponents(Tail(ita), Tail(itb), comps)
         ELSE IF Head(itb) = CUR_DIR
         THEN DiffComponents(Tail(ita), Tail(itb), Append(comps, Head(ita)))
         ELSE IF Head(itb) = PARENT_DIR THEN None
         ELSE Some(Append(comps, PARENT_DIR)
                     \o [i \in 1..(Len(itb) - 1) |-> PARENT_DIR]
                     \o ita)

\* pathdiff::diff_paths
PathdiffDiffPaths(path, base) ==
  IF IsAbsolute(path) # IsAbsolute(base)
  THEN IF IsAbsolute(path) THEN Some(path) ELSE None
  ELSE DiffComponents(path, base, <<>>)

LiteralComponent == [type |-> "literal", path |-> <<>>]
ResourceComponent == [type |-> "resource", path |-> <<>>]
RelativePathComponent(path) == [type |-> "relative_path", path |-> path]

\* The relative paths of a script config, against base_path.
ConfigPaths == {<<"lib">>, <<"bin", "lib">>, <<PARENT_DIR, "share">>}

TemplateComponents ==
  {LiteralComponent, ResourceComponent} \cup {RelativePathComponent(p) : p \in ConfigPaths}

RebaseTemplates == SeqsUpTo(TemplateComponents, MaxComponents) \ {<<>>}

RebaseEnvValues ==
  [type : {"clear", "inherit"}, value : {<<>>}, separator : {<<>>}]
  \cup [type : {"set", "fallback"}, value : RebaseTemplates, separator : {<<>>}]
  \cup [type : {"prepend", "append"}, value : RebaseTemplates,
        separator : {<<":">>, <<";">>}]

\* runnable_core::RunnablePath
RunnablePaths == {ResourceComponent} \cup {RelativePathComponent(p) : p \in ConfigPaths}

\* The recipe path as given on the command line, absolute or relative to
\* the working directory; the output paths are paths under it.
RecipePaths == {<<ROOT, "output">>, <<"out">>}
OutputSubpaths == {<<"hello">>, <<"bin", "hello">>, <<"usr", "bin", "hello">>}

RebaseInputs ==
  {in \in [base_path : {None} \cup {Some(p) : p \in RecipePaths},
           recipe_path : RecipePaths,
           output_subpath : OutputSubpaths,
           env : RebaseEnvValues,
           dependencies : SeqsUpTo(RunnablePaths, MaxRebaseDeps)] :
     in.base_path.some => in.base_path.value = in.recipe_path}

\* The path of the output file, as autopack gets it.
OutputPath(in) == JoinComponents(in.recipe_path, in.output_subpath)

\* relative_template and relative_runnable_path on one RelativePath: the
\* new path, or None for "failed to get path relative to output dir".
RebasePath(base_path, output_path, path) ==
  LET joined_output_path == JoinComponents(base_path, output_path)
      output_dir == ParentOf(joined_output_path)
      full_path == JoinComponents(base_path, path)
  IN IF ~output_dir.some THEN None
     ELSE PathdiffDiffPaths(full_path, output_dir.value)

\* One component through the match of relative_template, one dependency
\* through the match of relative_runnable_path.
RebaseComponent(base_path, output_path, component) ==
  IF ~base_path.some \/ component.type # "relative_path" THEN Some(component)
  ELSE LET new_relative_path == RebasePath(base_path.value, output_path, component.path)
       IN IF ~new_relative_path.some THEN None
          ELSE Some(RelativePathComponent(new_relative_path.value))

\* relative_template: the components in order, None if one of them failed
RelativeTemplate(value, base_path, output_path) ==
  LET components == [i \in DOMAIN value |-> RebaseComponent(base_path, output_path, value[i])]
  IN IF \E i \in DOMAIN components : ~components[i].some THEN None
     ELSE Some([i \in DOMAIN components |-> components[i].value])

NoRebase == [env |-> None, dependencies |-> None, error |-> ""]

RebaseStart ==
  /\ rbPhase = "start"
  /\ rbIn \in RebaseInputs
  /\ rbOut = NoRebase

RebaseFrame == UNCHANGED <<packVars, storeVars, findVars, kindVars, libVars, autoVars, scriptVars, execVars, stubVars, repackVars, ldVars>>

\* ScriptConfig::env_for_output_path on one entry of config.env
EnvForOutputPath ==
  /\ rbPhase = "start"
  /\ LET env == rbIn.env
     IN IF env.type \in {"clear", "inherit"}
        THEN /\ rbOut' = [rbOut EXCEPT !.env = Some(env)]
             /\ rbPhase' = "env"
        ELSE LET value == RelativeTemplate(env.value, rbIn.base_path, OutputPath(rbIn))
             IN IF value.some
                THEN /\ rbOut' = [rbOut EXCEPT !.env = Some([env EXCEPT !.value = value.value])]
                     /\ rbPhase' = "env"
                ELSE /\ rbOut' = [rbOut EXCEPT !.error = "failed to get path relative to output dir"]
                     /\ rbPhase' = "failed"
  /\ UNCHANGED rbIn
  /\ RebaseFrame

\* ScriptConfig::dependencies_for_output_path
DependenciesForOutputPath ==
  /\ rbPhase = "env"
  /\ LET dependencies == RelativeTemplate(rbIn.dependencies, rbIn.base_path, OutputPath(rbIn))
     IN IF dependencies.some
        THEN /\ rbOut' = [rbOut EXCEPT !.dependencies = dependencies]
             /\ rbPhase' = "done"
        ELSE /\ rbOut' = [rbOut EXCEPT !.error = "failed to get path relative to output dir"]
             /\ rbPhase' = "failed"
  /\ UNCHANGED rbIn
  /\ RebaseFrame

RebaseNext == EnvForOutputPath \/ DependenciesForOutputPath

RebaseInit == RebaseStart /\ PackIdle /\ StoreIdle /\ FindIdle /\ KindIdle /\ LibIdle /\ AutoIdle /\ ScriptIdle /\ ExecIdle /\ StubIdle /\ RepackIdle /\ LdIdle

SpecRebase == RebaseInit /\ [][RebaseNext]_vars

\* The location a path denotes: its components with every ".." applied to
\* what precedes it.
RECURSIVE Located(_, _)
Located(done, path) ==
  IF path = <<>> THEN done
  ELSE IF Head(path) # PARENT_DIR THEN Located(Append(done, Head(path)), Tail(path))
  ELSE IF done = <<>> \/ done[Len(done)] = PARENT_DIR
       THEN Located(Append(done, PARENT_DIR), Tail(path))
  ELSE IF done = <<ROOT>> THEN Located(done, Tail(path))
  ELSE Located(SubSeq(done, 1, Len(done) - 1), Tail(path))

Location(dir, path) == Located(<<>>, JoinComponents(dir, path))

\* The directory of the output file.
OutputFileDir == ParentOf(OutputPath(rbIn)).value

\* new is old re-based: same kind, and a RelativePath denotes from the
\* output file's directory what old denotes from base_path.
SameMeaning(old, new) ==
  /\ new.type = old.type
  /\ old.type # "relative_path" => new = old
  /\ (old.type = "relative_path" /\ ~rbIn.base_path.some) => new = old
  /\ (old.type = "relative_path" /\ rbIn.base_path.some) =>
       Location(OutputFileDir, new.path) = Location(rbIn.base_path.value, old.path)

\* C25: re-basing preserves meaning: every RelativePath component of the
\* env value and every RelativePath dependency, resolved against the
\* directory of the output file, denotes the location the original denotes
\* against base_path; Literal and Resource components, the kind of the env
\* value, its separator and the order of the components are unchanged, and
\* with base_path absent the value is unchanged.
C25_RebasePreservesMeaning ==
  /\ rbPhase \in {"env", "done"} =>
       LET old == rbIn.env
           new == rbOut.env.value
       IN /\ new.type = old.type
          /\ new.separator = old.separator
          /\ Len(new.value) = Len(old.value)
          /\ \A i \in DOMAIN old.value : SameMeaning(old.value[i], new.value[i])
  /\ rbPhase = "done" =>
       LET old == rbIn.dependencies
           new == rbOut.dependencies.value
       IN /\ Len(new) = Len(old)
          /\ \A i \in DOMAIN old : SameMeaning(old[i], new[i])
  /\ rbPhase # "failed"

\* The files whose bytes have been ingested into the resource store as
\* libraries.
IngestedLibraries(st) == {blob[2] : blob \in st.store}

\* C26: a dependency that is a pending input is packed before it is used:
\* no file has been ingested into the resource store by a library closure
\* while it was, and still is, one of the run's pending input paths,
\* however the input paths were spelled.
C26_PendingDependencyPackedFirst ==
  apPhase \in {"loop", "done", "failed"} =>
    IngestedLibraries(apRun) \cap apRun.pending_paths = {}

\* The place of a path in the sort order of the path names.
Place(in, path) == CHOOSE i \in DOMAIN in.order : in.order[i] = path

\* No path was dispatched twice, only input paths were dispatched, and a
\* dispatched path is no longer pending.
DispatchedOnce ==
  apPhase \in {"loop", "done", "failed"} =>
    LET dispatched == apRun.dispatched
    IN /\ \A i, j \in DOMAIN dispatched : i # j => dispatched[i] # dispatched[j]
       /\ \A i \in DOMAIN dispatched :
            /\ dispatched[i] \in apIn.matched
            /\ dispatched[i] \notin apRun.pending_paths
       /\ apPhase = "done" => {dispatched[i] : i \in DOMAIN dispatched} = apIn.matched

\* A step of the main loop dispatches the least pending path first.
LoopTakesLeast ==
  (apPhase = "loop" /\ apRun'.dispatched # apRun.dispatched) =>
    LET path == apRun'.dispatched[Len(apRun.dispatched) + 1]
    IN /\ path \in apRun.pending_paths
       /\ \A other \in apRun.pending_paths : Place(apIn, path) <= Place(apIn, other)
       /\ SubSeq(apRun'.dispatched, 1, Len(apRun.dispatched)) = apRun.dispatched

\* C27: each step of the main loop takes the least path of the pending
\* set; a path has left the pending set when its handler starts; every
\* input path is dispatched at most once in a run, by the main loop in
\* ascending order or earlier as a dependency of the path being processed.
C27_PendingScheduling == [][LoopTakesLeast]_vars /\ []DispatchedOnce

C27_Witness ==
  /\ apPhase = "done"
  /\ apIn.canonical
  /\ Len(apRun.dispatched) = 3
  /\ Place(apIn, apRun.dispatched[2]) > Place(apIn, apRun.dispatched[3])

(***************************************************************************)
(* Repacking: try_autopack_path and autopack_repack of brioche-autopack on  *)
(* one input that is packed in place (source path = output path)            *)
(*                                                                          *)
(* The content of a file is the sequence of its layers: the raw file        *)
(* first, then one entry per pack trailer appended to it.  extract_pack     *)
(* reads the last trailer; the unpacked content is the content without it.  *)
(***************************************************************************)
MaxLayers == 2

OUTPUT == "out"
RepackResources == {"r1", "r2"}
RepackFiles == {OUTPUT} \cup RepackResources

\* Raw files: a shared library with needed libraries, a shared library
\* with none, a file autopack_kind answers None for.
RawContents == {<<"raw", "lib">>, <<"raw", "lib_empty">>, <<"raw", "other">>}

StaticTrailer == <<"static", "">>
LdLinuxTrailer(program) == <<"ld_linux", program>>
Trailers == {StaticTrailer} \cup {LdLinuxTrailer(r) : r \in RepackResources}

Contents(layers) ==
  {<<raw>> \o trailers : raw \in RawContents, trailers \in SeqsUpTo(Trailers, layers)}

RepackInputs ==
  [files : {f \in [RepackFiles -> Contents(MaxLayers)] :
              \A r \in RepackResources : Len(f[r]) <= 2},
   repack : BOOLEAN,
   shared_library : {"absent", "allow_empty", "not_allow_empty"},
   can_skip : BOOLEAN]

IsPacked(contents) == Len(contents) > 1
Trailer(contents) == contents[Len(contents)]
Unpacked(contents) == SubSeq(contents, 1, Len(contents) - 1)

\* autopack_kind
RepackKind(contents) ==
  IF IsPacked(contents) THEN "repack"
  ELSE IF contents[1][2] = "other" THEN "none"
  ELSE "shared_library"

\* pack_source for an LdLinux or a Static pack, every resource being in
\* the resource dirs
PackSource(pack) ==
  IF pack = StaticTrailer THEN [this |-> TRUE, path |-> ""]
  ELSE [this |-> FALSE, path |-> pack[2]]

\* `let Some(_) = &ctx.config.repack else { return Ok(false) }`
RepackAlways(in) == TRUE
RepackConfigured(in) == in.repack

\* The nesting of try_autopack_path calls the stack has room for: more
\* than any chain of distinct sources needs.
StackLimit == 2 * (MaxLayers + Cardinality(RepackResources)) + 1

NoRepack == [source |-> OUTPUT, files |-> <<>>, did_pack |-> "none", depth |-> 0]

RepackStart ==
  /\ rpPhase = "start"
  /\ rpIn \in RepackInputs
  /\ rpRun = NoRepack

RepackFrame == UNCHANGED <<packVars, storeVars, findVars, kindVars, libVars, autoVars, scriptVars, execVars, stubVars, rebaseVars, ldVars>>

\* autopack_path calls try_autopack_path(path, path)
RpAutopackPath ==
  /\ rpPhase = "start"
  /\ rpPhase' = "try"
  /\ rpRun' = [rpRun EXCEPT !.files = rpIn.files]
  /\ UNCHANGED rpIn
  /\ RepackFrame

\* try_autopack_path on a source that is not packed: the kind is None, or
\* autopack_shared_library runs
RpHandle ==
  /\ rpPhase = "try"
  /\ RepackKind(rpRun.files[rpRun.source]) # "repack"
  /\ LET contents == rpRun.files[rpRun.source]
         empty == contents[1][2] = "lib_empty"
     IN IF \/ RepackKind(contents) = "none"
           \/ rpIn.shared_library = "absent"
           \/ empty /\ rpIn.shared_library = "not_allow_empty"
        THEN rpRun' = [rpRun EXCEPT !.did_pack = "false"]
        ELSE rpRun' = [rpRun EXCEPT !.did_pack = "true",
                                    !.files[OUTPUT] = Append(contents, StaticTrailer)]
  /\ rpPhase' = "returned"
  /\ UNCHANGED rpIn
  /\ RepackFrame

\* try_autopack_path on a packed source: autopack_repack up to its call of
\* try_autopack_path on the unpacked source, one call deeper
RpRepack ==
  /\ rpPhase = "try"
  /\ RepackKind(rpRun.files[rpRun.source]) = "repack"
  /\ rpRun.depth < StackLimit
  /\ IF ~RepackConfigured(rpIn)
     THEN /\ rpRun' = [rpRun EXCEPT !.did_pack = "false"]
          /\ rpPhase' = "returned"
     ELSE LET contents == rpRun.files[rpRun.source]
              repack_source == PackSource(Trailer(contents))
          IN /\ rpPhase' = "try"
             /\ IF repack_source.this
                THEN rpRun' = [rpRun EXCEPT !.files[OUTPUT] = Unpacked(contents),
                                            !.source = OUTPUT,
                                            !.depth = @ + 1]
                ELSE rpRun' = [rpRun EXCEPT !.source = repack_source.path,
                                            !.depth = @ + 1]
  /\ UNCHANGED rpIn
  /\ RepackFrame

\* the recursion has used up the stack: the process is killed inside
\* try_autopack_path, autopack does not return
RpStackOverflow ==
  /\ rpPhase = "try"
  /\ RepackKind(rpRun.files[rpRun.source]) = "repack"
  /\ rpRun.depth = StackLimit
  /\ rpPhase' = "stack overflow"
  /\ UNCHANGED <<rpIn, rpRun>>
  /\ RepackFrame

\* the tail of autopack_path
RpReturn ==
  /\ rpPhase = "returned"
  /\ rpPhase' = IF rpRun.did_pack = "true" THEN "autopacked"
                ELSE IF ~rpIn.can_skip THEN "skipped"
                ELSE "failed"
  /\ UNCHANGED <<rpIn, rpRun>>
  /\ RepackFrame

RepackNext == RpAutopackPath \/ RpHandle \/ RpRepack \/ RpStackOverflow \/ RpReturn

RepackInit == RepackStart /\ PackIdle /\ StoreIdle /\ FindIdle /\ KindIdle /\ LibIdle /\ AutoIdle /\ ScriptIdle /\ ExecIdle /\ StubIdle /\ RebaseIdle /\ LdIdle

SpecRepack == RepackInit /\ [][RepackNext]_vars

\* The run is one thread: whenever a step is possible it is taken.
SpecRepackFair == SpecRepack /\ WF_vars(RepackNext)

RepackEnded == rpPhase \in {"autopacked", "skipped", "failed"}

\* C28: autopack terminates for every input, packed files whose source is
\* again a packed file included: the recursion through repack bottoms out
\* and the run ends, with the path handled or with an error.
C28_RepackTerminates == <>RepackEnded

\* C30: a path that autopack does not pack is left untouched: when
\* try_autopack_path has returned false (the path is then reported as
\* skipped or the run fails with 'failed to autopack path'), the file at
\* the output path is what it was before the call, also when the input was
\* a packed file handled by repack.
C30_NotPackedUntouched ==
  (rpPhase \in {"returned", "skipped", "failed"} /\ rpRun.did_pack = "false") =>
    rpRun.files[OUTPUT] = rpIn.files[OUTPUT]

\* The content of a file of the run without its Static trailer and what
\* follows it: what a repack step with PackSource::This writes to the
\* output path.
StaticAt(contents) ==
  {n \in 1..(Len(contents) - 1) : contents[n + 1] = StaticTrailer}
UnpackedPrefixes ==
  UNION {{SubSeq(rpIn.files[f], 1, n) : n \in StaticAt(rpIn.files[f])} : f \in RepackFiles}

\* C30, amended: when try_autopack_path has returned false the file at the
\* output path is what it was before the call, unless repack is configured
\* and the input is a packed file: then a repack step on a Static pack may
\* have written the unpacked contents of its source to the output path, and
\* the file is either untouched or holds such unpacked contents.
C30_NotPackedUntouchedOrUnpacked ==
  (rpPhase \in {"returned", "skipped", "failed"} /\ rpRun.did_pack = "false") =>
    /\ (~rpIn.repack \/ ~IsPacked(rpIn.files[OUTPUT])) =>
         rpRun.files[OUTPUT] = rpIn.files[OUTPUT]
    /\ rpRun.files[OUTPUT] \in {rpIn.files[OUTPUT]} \cup UnpackedPrefixes

C30_Witness ==
  /\ rpPhase = "skipped"
  /\ rpRun.did_pack = "false"
  /\ rpIn.files[OUTPUT] = <<<<"raw", "lib_empty">>, StaticTrailer>>
  /\ rpIn.shared_library = "not_allow_empty"
  /\ rpRun.files[OUTPUT] = <<<<"raw", "lib_empty">>>>

(***************************************************************************)
(* The linker wrapper: run of brioche-ld, from the reading of the autopack  *)
(* environment variables on                                                 *)
(*                                                                          *)
(* The value of a glob variable is a sequence of tokens: a glob pattern or  *)
(* the separator ";".                                                       *)
(***************************************************************************)
MaxGlobTokens == 3

SEMICOLON == ";"
GlobPatterns == {"bin/*", "*.so"}
LdOutputPaths == {<<"bin/x">>, <<"lib/y.so">>}

\* The values a glob variable can hold: patterns separated by ";", empty
\* pieces allowed.
GlobValues ==
  {v \in SeqsUpTo(GlobPatterns \cup {SEMICOLON}, MaxGlobTokens) :
     \A i \in 1..(Len(v) - 1) : v[i] = SEMICOLON \/ v[i + 1] = SEMICOLON}

LdInputs ==
  [autopack : {None, Some(<<"false">>), Some(<<"true">>)},
   output_path : {None} \cup {Some(p) : p \in LdOutputPaths},
   include : {None} \cup {Some(v) : v \in GlobValues},
   exclude : {None} \cup {Some(v) : v \in GlobValues},
   linker_succeeds : BOOLEAN]

\* str::split(';'): the pieces between the separators, empty ones included
RECURSIVE SplitSemicolon(_, _)
SplitSemicolon(value, piece) ==
  IF value = <<>> THEN <<piece>>
  ELSE IF Head(value) = SEMICOLON
       THEN <<piece>> \o SplitSemicolon(Tail(value), <<>>)
       ELSE SplitSemicolon(Tail(value), Append(piece, Head(value)))

\* The pieces that are globs.
KeepNonEmpty(globs) == SelectSeq(globs, LAMBDA glob : glob # <<>>)

\* `.filter(|glob| glob.is_empty())`
KeepEmpty(globs) == SelectSeq(globs, LAMBDA glob : glob = <<>>)

\* Glob::new(glob) matching a path: the empty glob matches the empty path
\* only.
GlobMatches(glob, path) ==
  CASE glob = <<>> -> path = <<>>
    [] glob = <<"bin/*">> -> path = <<"bin/x">>
    [] glob = <<"*.so">> -> path = <<"lib/y.so">>
    [] OTHER -> FALSE

\* The GlobSet built from the value of a glob variable, and
\* GlobSet::is_match
GlobSetOf(value) == KeepEmpty(SplitSemicolon(value, <<>>))
IsMatch(globset, path) == \E i \in DOMAIN globset : GlobMatches(globset[i], path)

\* should_include
ShouldInclude(in, output_path) ==
  IF in.include.some THEN IsMatch(GlobSetOf(in.include.value), output_path)
  ELSE IF in.exclude.some THEN ~IsMatch(GlobSetOf(in.exclude.value), output_path)
  ELSE TRUE

NoLd == [mode |-> "undetermined", autopacked |-> FALSE, exit |-> "running"]

LdStart ==
  /\ ldPhase = "start"
  /\ ldIn \in LdInputs
  /\ ldRun = NoLd

LdFrame == UNCHANGED <<packVars, storeVars, findVars, kindVars, libVars, autoVars, scriptVars, execVars, stubVars, rebaseVars, repackVars>>

\* run up to the linker command: the autopack mode is determined
LdMode ==
  /\ ldPhase = "start"
  /\ ldPhase' = "mode"
  /\ ldRun' = [ldRun EXCEPT !.mode =
       IF ldIn.autopack = Some(<<"false">>) \/ ~ldIn.output_path.some
       THEN "AutopackDisabled"
       ELSE IF ShouldInclude(ldIn, ldIn.output_path.value)
            THEN "AutopackEnabled"
            ELSE "AutopackDisabled"]
  /\ UNCHANGED ldIn
  /\ LdFrame

\* the linker runs; its failure is the wrapper's exit code
LdLinker ==
  /\ ldPhase = "mode"
  /\ IF ldIn.linker_succeeds
     THEN /\ ldPhase' = "linked"
          /\ ldRun' = ldRun
     ELSE /\ ldPhase' = "exited"
          /\ ldRun' = [ldRun EXCEPT !.exit = "linker failure"]
  /\ UNCHANGED ldIn
  /\ LdFrame

\* Mode::AutopackEnabled: autopack on the output path
LdAutopack ==
  /\ ldPhase = "linked"
  /\ ldRun.mode = "AutopackEnabled"
  /\ ldPhase' = "exited"
  /\ ldRun' = [ldRun EXCEPT !.autopacked = TRUE, !.exit = "success"]
  /\ UNCHANGED ldIn
  /\ LdFrame

\* Mode::AutopackDisabled: nothing to do
LdDisabled ==
  /\ ldPhase = "linked"
  /\ ldRun.mode = "AutopackDisabled"
  /\ ldPhase' = "exited"
  /\ ldRun' = [ldRun EXCEPT !.exit = "success"]
  /\ UNCHANGED ldIn
  /\ LdFrame

LdNext == LdMode \/ LdLinker \/ LdAutopack \/ LdDisabled

LdInit == LdStart /\ PackIdle /\ StoreIdle /\ FindIdle /\ KindIdle /\ LibIdle /\ AutoIdle /\ ScriptIdle /\ ExecIdle /\ StubIdle /\ RebaseIdle /\ RepackIdle

SpecLd == LdInit /\ [][LdNext]_vars

\* The output path matches one of the ';'-separated globs of the value.
MatchesOneOf(value, path) ==
  \E i \in DOMAIN KeepNonEmpty(SplitSemicolon(value, <<>>)) :
    GlobMatches(KeepNonEmpty(SplitSemicolon(value, <<>>))[i], path)

\* C29: brioche-ld honours its globs: with autopack not disabled and the
\* link successful, the output is autopacked exactly when its path matches
\* a glob of BRIOCHE_LD_AUTOPACK_INCLUDE if that is set; otherwise exactly
\* when it matches no glob of BRIOCHE_LD_AUTOPACK_EXCLUDE if that is set;
\* and always with neither set.
C29_GlobsHonoured ==
  (/\ ldPhase = "exited"
   /\ ldRun.exit = "success"
   /\ ldIn.autopack # Some(<<"false">>)
   /\ ldIn.output_path.some) =>
    LET path == ldIn.output_path.value
    IN ldRun.autopacked <=>
         IF ldIn.include.some THEN MatchesOneOf(ldIn.include.value, path)
         ELSE IF ldIn.exclude.some THEN ~MatchesOneOf(ldIn.exclude.value, path)
         ELSE TRUE

====
